---- MODULE Spec2Model ----
(***************************************************************************)
(* A model of the request-handling pipeline of rust-http-server: the      *)
(* Response<Fresh>/Response<Streaming> typestate and chunked writer        *)
(* (src/server/mod.rs), the prefix router (src/server/router.rs), path    *)
(* normalization (src/filesystem.rs), the accept loop (serve) and the      *)
(* FastCGI driver (src/fastcgi/driver.rs) with the codecs it relies on.    *)
(*                                                                         *)
(* Byte strings are sequences of byte values (ASCII codes), so that every  *)
(* formatting and parsing step is modelled by what it does to the bytes.   *)
(***************************************************************************)
EXTENDS Integers, Sequences, FiniteSets, TLC

(***************************************************************************)
(* Byte-string literals of the source.                                     *)
(***************************************************************************)
\* "\r\n"
CRLF == <<13, 10>>
\* "HTTP/1.1 "
B_HTTP11 == <<72, 84, 84, 80, 47, 49, 46, 49, 32>>
\* ": "
B_ColonSp == <<58, 32>>
\* "Ok"
B_Ok == <<79, 107>>
\* "OK"
B_OK == <<79, 75>>
\* "Transfer-Encoding"
B_TransferEncoding == <<84, 114, 97, 110, 115, 102, 101, 114, 45, 69, 110, 99, 111, 100, 105, 110, 103>>
\* "Chunked"
B_Chunked == <<67, 104, 117, 110, 107, 101, 100>>
\* "Content-Type"
B_ContentType == <<67, 111, 110, 116, 101, 110, 116, 45, 84, 121, 112, 101>>
\* "Content-Length"
B_ContentLength == <<67, 111, 110, 116, 101, 110, 116, 45, 76, 101, 110, 103, 116, 104>>
\* "Content-type"
B_Content_type == <<67, 111, 110, 116, 101, 110, 116, 45, 116, 121, 112, 101>>
\* "Content-length"
B_Content_length == <<67, 111, 110, 116, 101, 110, 116, 45, 108, 101, 110, 103, 116, 104>>
\* "text/html"
B_text_html == <<116, 101, 120, 116, 47, 104, 116, 109, 108>>
\* "text/plain"
B_text_plain == <<116, 101, 120, 116, 47, 112, 108, 97, 105, 110>>
\* "0\r\n"
B_LastChunk == <<48, 13, 10>>
\* "Hello"
B_Hello == <<72, 101, 108, 108, 111>>
\* "GET"
B_GET == <<71, 69, 84>>
\* "POST"
B_POST == <<80, 79, 83, 84>>
\* "Internal Error"
REASON_500 == <<73, 110, 116, 101, 114, 110, 97, 108, 32, 69, 114, 114, 111, 114>>
\* "Method not allowed"
REASON_405 == <<77, 101, 116, 104, 111, 100, 32, 110, 111, 116, 32, 97, 108, 108, 111, 119, 101, 100>>
\* "Not Found"
REASON_404 == <<78, 111, 116, 32, 70, 111, 117, 110, 100>>
\* "Forbidden"
REASON_403 == <<70, 111, 114, 98, 105, 100, 100, 101, 110>>
\* "Bad Request"
REASON_400 == <<66, 97, 100, 32, 82, 101, 113, 117, 101, 115, 116>>
\* "<!doctype html><html><head><title>Error</title></head><body>... (193 bytes)"
ERROR_500 == <<60, 33, 100, 111, 99, 116, 121, 112, 101, 32, 104, 116, 109, 108, 62, 60, 104, 116, 109, 108, 62, 60, 104, 101, 97, 100, 62, 60, 116, 105, 116, 108, 101, 62, 69, 114, 114, 111, 114, 60, 47, 116, 105, 116, 108, 101, 62, 60, 47, 104, 101, 97, 100, 62, 60, 98, 111, 100, 121, 62, 60, 104, 49, 62, 73, 110, 116, 101, 114, 110, 97, 108, 32, 69, 114, 114, 111, 114, 60, 47, 104, 49, 62, 60, 112, 62, 83, 111, 109, 101, 116, 104, 105, 110, 103, 32, 119, 101, 110, 116, 32, 119, 114, 111, 110, 103, 32, 111, 110, 32, 109, 121, 32, 115, 105, 100, 101, 46, 60, 47, 112, 62, 60, 112, 62, 84, 104, 101, 114, 101, 39, 115, 32, 110, 111, 116, 104, 105, 110, 103, 32, 121, 111, 117, 32, 99, 97, 110, 32, 100, 111, 59, 32, 109, 97, 121, 98, 101, 32, 99, 111, 109, 101, 32, 98, 97, 99, 107, 32, 108, 97, 116, 101, 114, 46, 60, 47, 112, 62, 60, 47, 98, 111, 100, 121, 62, 60, 47, 104, 116, 109, 108, 62>>
\* "192"
LEN_500 == <<49, 57, 50>>
\* "<!doctype html><html><head><title>Error</title></head><body>... (181 bytes)"
ERROR_405 == <<60, 33, 100, 111, 99, 116, 121, 112, 101, 32, 104, 116, 109, 108, 62, 60, 104, 116, 109, 108, 62, 60, 104, 101, 97, 100, 62, 60, 116, 105, 116, 108, 101, 62, 69, 114, 114, 111, 114, 60, 47, 116, 105, 116, 108, 101, 62, 60, 47, 104, 101, 97, 100, 62, 60, 98, 111, 100, 121, 62, 60, 104, 49, 62, 77, 101, 116, 104, 111, 100, 32, 78, 111, 116, 32, 65, 108, 108, 111, 119, 101, 100, 60, 47, 104, 49, 62, 60, 112, 62, 84, 104, 105, 115, 32, 115, 101, 114, 118, 101, 114, 32, 111, 110, 108, 121, 32, 117, 110, 100, 101, 114, 115, 116, 97, 110, 100, 115, 32, 60, 99, 111, 100, 101, 62, 71, 69, 84, 60, 47, 99, 111, 100, 101, 62, 32, 114, 101, 113, 117, 101, 115, 116, 115, 46, 32, 83, 111, 114, 114, 121, 32, 97, 98, 111, 117, 116, 32, 116, 104, 97, 116, 46, 60, 47, 112, 62, 60, 47, 98, 111, 100, 121, 62, 60, 47, 104, 116, 109, 108, 62>>
\* "181"
LEN_405 == <<49, 56, 49>>
\* "<!doctype html><html><head><title>Error</title></head><body>... (132 bytes)"
ERROR_404 == <<60, 33, 100, 111, 99, 116, 121, 112, 101, 32, 104, 116, 109, 108, 62, 60, 104, 116, 109, 108, 62, 60, 104, 101, 97, 100, 62, 60, 116, 105, 116, 108, 101, 62, 69, 114, 114, 111, 114, 60, 47, 116, 105, 116, 108, 101, 62, 60, 47, 104, 101, 97, 100, 62, 60, 98, 111, 100, 121, 62, 60, 104, 49, 62, 78, 111, 116, 32, 70, 111, 117, 110, 100, 60, 47, 104, 49, 62, 60, 112, 62, 73, 32, 99, 111, 117, 108, 100, 110, 39, 116, 32, 102, 105, 110, 100, 32, 116, 104, 97, 116, 32, 102, 105, 108, 101, 46, 32, 83, 111, 114, 114, 121, 46, 60, 47, 112, 62, 60, 47, 98, 111, 100, 121, 62, 60, 47, 104, 116, 109, 108, 62>>
\* "132"
LEN_404 == <<49, 51, 50>>
\* "<!doctype html><html><head><title>Error</title></head><body>... (150 bytes)"
ERROR_403 == <<60, 33, 100, 111, 99, 116, 121, 112, 101, 32, 104, 116, 109, 108, 62, 60, 104, 116, 109, 108, 62, 60, 104, 101, 97, 100, 62, 60, 116, 105, 116, 108, 101, 62, 69, 114, 114, 111, 114, 60, 47, 116, 105, 116, 108, 101, 62, 60, 47, 104, 101, 97, 100, 62, 60, 98, 111, 100, 121, 62, 60, 104, 49, 62, 70, 111, 114, 98, 105, 100, 100, 101, 110, 60, 47, 104, 49, 62, 60, 112, 62, 89, 111, 117, 32, 100, 111, 110, 39, 116, 32, 104, 97, 118, 101, 32, 112, 101, 114, 109, 105, 115, 115, 105, 111, 110, 32, 116, 111, 32, 118, 105, 101, 119, 32, 116, 104, 97, 116, 32, 102, 105, 108, 101, 46, 32, 83, 111, 114, 114, 121, 46, 60, 47, 112, 62, 60, 47, 98, 111, 100, 121, 62, 60, 47, 104, 116, 109, 108, 62>>
\* "150"
LEN_403 == <<49, 53, 48>>
\* "<!doctype html><html><head><title>Error</title></head><body>... (164 bytes)"
ERROR_400 == <<60, 33, 100, 111, 99, 116, 121, 112, 101, 32, 104, 116, 109, 108, 62, 60, 104, 116, 109, 108, 62, 60, 104, 101, 97, 100, 62, 60, 116, 105, 116, 108, 101, 62, 69, 114, 114, 111, 114, 60, 47, 116, 105, 116, 108, 101, 62, 60, 47, 104, 101, 97, 100, 62, 60, 98, 111, 100, 121, 62, 60, 104, 49, 62, 66, 97, 100, 32, 82, 101, 113, 117, 101, 115, 116, 60, 47, 104, 49, 62, 60, 112, 62, 89, 111, 117, 114, 32, 114, 101, 113, 117, 101, 115, 116, 32, 104, 97, 100, 32, 115, 111, 109, 101, 32, 107, 105, 110, 100, 32, 111, 102, 32, 98, 97, 100, 32, 115, 121, 110, 116, 97, 120, 46, 32, 65, 114, 101, 32, 121, 111, 117, 32, 117, 115, 105, 110, 103, 32, 110, 101, 116, 99, 97, 116, 63, 60, 47, 112, 62, 60, 47, 98, 111, 100, 121, 62, 60, 47, 104, 116, 109, 108, 62>>
\* "164"
LEN_400 == <<49, 54, 52>>
\* "/"
P_Slash == <<47>>
\* "/static"
P_SlashStatic == <<47, 115, 116, 97, 116, 105, 99>>
\* "/static/"
P_SlashStaticSlash == <<47, 115, 116, 97, 116, 105, 99, 47>>
\* "static"
P_Static == <<115, 116, 97, 116, 105, 99>>
\* "/html"
P_SlashHtml == <<47, 104, 116, 109, 108>>
\* "/static/x"
T_StaticX == <<47, 115, 116, 97, 116, 105, 99, 47, 120>>
\* "//static//x"
T_Static2X == <<47, 47, 115, 116, 97, 116, 105, 99, 47, 47, 120>>
\* "/staticx"
T_Staticx == <<47, 115, 116, 97, 116, 105, 99, 120>>
\* "/x"
T_X == <<47, 120>>
\* "/html/x"
T_HtmlX == <<47, 104, 116, 109, 108, 47, 120>>
\* "/page"
T_Page == <<47, 112, 97, 103, 101>>
\* "/%a"
T_Pct1 == <<47, 37, 97>>
\* "/a%"
T_Pct0 == <<47, 97, 37>>
\* "/%zz"
T_PctBad == <<47, 37, 122, 122>>
\* "/a%2Fb"
T_PctOk == <<47, 97, 37, 50, 70, 98>>
\* "x"
T_NoSlash == <<120>>
\* "Status:"
B_StatusColon == <<83, 116, 97, 116, 117, 115, 58>>
\* "Content-Type:"
B_ContentTypeColon == <<67, 111, 110, 116, 101, 110, 116, 45, 84, 121, 112, 101, 58>>
\* "page"
U_Page == <<112, 97, 103, 101>>
\* "Content-Type: text/plain\r\n\r\nHello"
CGI_Plain == <<67, 111, 110, 116, 101, 110, 116, 45, 84, 121, 112, 101, 58, 32, 116, 101, 120, 116, 47, 112, 108, 97, 105, 110, 13, 10, 13, 10, 72, 101, 108, 108, 111>>
\* "Status: 200 OK\r\nContent-Type: text/plain\r\nX-A: b\r\n\r\nHello"
CGI_Status == <<83, 116, 97, 116, 117, 115, 58, 32, 50, 48, 48, 32, 79, 75, 13, 10, 67, 111, 110, 116, 101, 110, 116, 45, 84, 121, 112, 101, 58, 32, 116, 101, 120, 116, 47, 112, 108, 97, 105, 110, 13, 10, 88, 45, 65, 58, 32, 98, 13, 10, 13, 10, 72, 101, 108, 108, 111>>
\* "Status: 200 OK\r\nContent-Type: te"
CGI_StatusPart1 == <<83, 116, 97, 116, 117, 115, 58, 32, 50, 48, 48, 32, 79, 75, 13, 10, 67, 111, 110, 116, 101, 110, 116, 45, 84, 121, 112, 101, 58, 32, 116, 101>>
\* "xt/plain\r\nX-A: b\r\n\r\nHi"
CGI_StatusPart2 == <<120, 116, 47, 112, 108, 97, 105, 110, 13, 10, 88, 45, 65, 58, 32, 98, 13, 10, 13, 10, 72, 105>>
\* "Hi"
B_Hi == <<72, 105>>
\* "\nContent-Type: text/html\nX-A: b\n\nHi"
CGI_NoStatus == <<10, 67, 111, 110, 116, 101, 110, 116, 45, 84, 121, 112, 101, 58, 32, 116, 101, 120, 116, 47, 104, 116, 109, 108, 10, 88, 45, 65, 58, 32, 98, 10, 10, 72, 105>>
\* "oops"
B_oops == <<111, 111, 112, 115>>
\* "Host"
B_Host == <<72, 111, 115, 116>>
\* "h"
B_h == <<104>>
\* "127.0.0.1"
B_Localhost == <<49, 50, 55, 46, 48, 46, 48, 46, 49>>
\* "/srv"
WEBROOT == <<47, 115, 114, 118>>
\* "/%2Fpage"
T_EncPage == <<47, 37, 50, 70, 112, 97, 103, 101>>
\* "/%2Fhtml/x"
T_EncHtmlX == <<47, 37, 50, 70, 104, 116, 109, 108, 47, 120>>

(***************************************************************************)
(* Generic helpers.                                                        *)
(***************************************************************************)
RECURSIVE Flatten(_)
Flatten(ss) == IF ss = <<>> THEN <<>> ELSE Head(ss) \o Flatten(Tail(ss))

\* n copies of byte b
Fill(n, b) == [i \in 1..n |-> b]

\* s ends with the bytes t
EndsWith(s, t) ==
    /\ Len(s) >= Len(t)
    /\ SubSeq(s, Len(s) - Len(t) + 1, Len(s)) = t

\* s starts with the bytes t
StartsWith(s, t) ==
    /\ Len(s) >= Len(t)
    /\ SubSeq(s, 1, Len(t)) = t

\* all enumerations (without repetition) of the finite set S
RECURSIVE Orders(_)
Orders(S) ==
    IF S = {} THEN {<<>>}
    ELSE UNION {{<<x>> \o o : o \in Orders(S \ {x})} : x \in S}

\* format!("{}", n) of an unsigned integer
RECURSIVE Dec(_)
Dec(n) == IF n < 10 THEN <<48 + n>> ELSE Dec(n \div 10) \o <<48 + (n % 10)>>

\* format!("{:x}", n): lowercase hexadecimal
HexDigit(d) == IF d < 10 THEN 48 + d ELSE 87 + d
RECURSIVE Hex(_)
Hex(n) == IF n < 16 THEN <<HexDigit(n)>> ELSE Hex(n \div 16) \o <<HexDigit(n % 16)>>

to_ascii_lowercase(b) == IF b \in 65..90 THEN b + 32 ELSE b
to_ascii_uppercase(b) == IF b \in 97..122 THEN b - 32 ELSE b

(***************************************************************************)
(* Headers (src/server/mod.rs): a map from case-normalized name to value.  *)
(***************************************************************************)
RECURSIVE normalize_rest(_, _)
normalize_rest(chars, after_hyphen) ==
    IF chars = <<>> THEN <<>>
    ELSE LET ch == Head(chars) IN
         IF ch = 45
         THEN <<ch>> \o normalize_rest(Tail(chars), TRUE)
         ELSE IF after_hyphen
         THEN <<to_ascii_uppercase(ch)>> \o normalize_rest(Tail(chars), FALSE)
         ELSE <<ch>> \o normalize_rest(Tail(chars), FALSE)

normalize_header_name(name) ==
    LET lowercased == [i \in 1..Len(name) |-> to_ascii_lowercase(name[i])] IN
    IF lowercased = <<>> THEN <<>>
    ELSE <<to_ascii_uppercase(Head(lowercased))>>
             \o normalize_rest(Tail(lowercased), FALSE)

Headers_new == [k \in {} |-> <<>>]

\* an insert that replaces the value of a name already present
Headers_insert_replacing(h, key, value) ==
    LET k == normalize_header_name(key) IN
    [x \in (DOMAIN h) \cup {k} |-> IF x = k THEN value ELSE h[x]]

Headers_insert(h, key, value) ==
    LET k == normalize_header_name(key) IN
    IF k \in DOMAIN h
    THEN [h EXCEPT ![k] = @ \o <<44>> \o value]
    ELSE [x \in (DOMAIN h) \cup {k} |-> IF x = k THEN value ELSE h[x]]

Headers_has(h, key) == normalize_header_name(key) \in DOMAIN h

\* Headers::get: Some(value) or None
Headers_get(h, key) ==
    IF normalize_header_name(key) \in DOMAIN h
    THEN [some |-> TRUE, val |-> h[normalize_header_name(key)]]
    ELSE [some |-> FALSE]

\* iteration over the HashMap: any order of its keys
HeaderOrders(h) == Orders(DOMAIN h)

(***************************************************************************)
(* Response (src/server/mod.rs).  A response value is a record             *)
(*   phase   "Fresh" | "Streaming" | "Gone": the type parameter of         *)
(*           Response<Status>; "Gone" once the value was consumed/dropped  *)
(*   code, reason, headers   ResponseStatus and Headers                    *)
(*   buffer, cap             the chunk buffer (Vec<u8>) and its capacity   *)
(*   wire    the bytes handed to the BufWriter on the client socket        *)
(* A writer call fails only when told to by its fail-point argument; the   *)
(* bytes of the calls before the failing one have been accepted.           *)
(***************************************************************************)
CHUNK_CAPACITY == 4096

\* a constructor that reserves the chunk buffer at once
Response_new_reserving ==
    [phase |-> "Fresh", code |-> 200, reason |-> B_Ok, headers |-> Headers_new,
     buffer |-> <<>>, cap |-> CHUNK_CAPACITY, wire |-> <<>>]

\* Response<Fresh>::new
Response_new ==
    [phase |-> "Fresh", code |-> 200, reason |-> B_Ok, headers |-> Headers_new,
     buffer |-> <<>>, cap |-> 0, wire |-> <<>>]

set_status(r, code, reason) == [r EXCEPT !.code = code, !.reason = reason]

headers_mut_insert(r, key, value) ==
    [r EXCEPT !.headers = Headers_insert(@, key, value)]

\* the writer calls of write_headers, in order
RECURSIVE header_pieces(_, _)
header_pieces(h, order) ==
    IF order = <<>> THEN <<>>
    ELSE <<Head(order) \o B_ColonSp, h[Head(order)], CRLF>>
             \o header_pieces(h, Tail(order))

write_headers_pieces(r, order) ==
    <<B_HTTP11 \o Dec(r.code) \o <<32>> \o r.reason \o CRLF>>
        \o header_pieces(r.headers, order)
        \o <<CRLF>>

\* failAt = number of writer calls that succeed before one fails;
\* failAt = Len(pieces) means no call fails
write_headers(r, order, failAt) ==
    LET pieces == write_headers_pieces(r, order) IN
    [r  |-> [r EXCEPT !.wire = @ \o Flatten(SubSeq(pieces, 1, failAt))],
     ok |-> failAt >= Len(pieces)]

\* write_chunk_raw: hex length line, payload, CR LF, then flush (call 4)
CHUNK_CALLS == 4

write_chunk_raw(wire, chunk_content, failAt) ==
    LET pieces == <<Hex(Len(chunk_content)) \o CRLF, chunk_content, CRLF>>
        n == IF failAt < 3 THEN failAt ELSE 3
    IN  [wire |-> wire \o Flatten(SubSeq(pieces, 1, n)),
         ok   |-> failAt >= CHUNK_CALLS]

\* a destructor that flushes the pending chunk but forgets the last-chunk
drop_without_last_chunk(r, failAt, lastOk) ==
    IF r.cap > 0
    THEN [r EXCEPT !.wire = write_chunk_raw(r.wire, r.buffer, failAt).wire,
                   !.phase = "Gone"]
    ELSE [r EXCEPT !.phase = "Gone"]

\* impl Drop for Response<T>
drop(r, failAt, lastOk) ==
    IF r.cap > 0
    THEN LET w == write_chunk_raw(r.wire, r.buffer, failAt) IN
         [r EXCEPT !.wire = IF lastOk THEN w.wire \o B_LastChunk ELSE w.wire,
                   !.phase = "Gone"]
    ELSE [r EXCEPT !.phase = "Gone"]

\* a start that writes the head but hands back a response that is still Fresh
start_staying_fresh(r, order, failAt) ==
    LET r1 == [r EXCEPT !.headers = Headers_insert(@, B_TransferEncoding, B_Chunked)]
        w  == write_headers(r1, order, failAt)
    IN  [r |-> w.r, ok |-> w.ok]

\* Response<Fresh>::start: on Err the response is dropped by the callee
start(r, order, failAt) ==
    LET r1 == [r EXCEPT !.headers =
                   Headers_insert(@, B_TransferEncoding, B_Chunked)]
        w  == write_headers(r1, order, failAt)
    IN  IF w.ok
        THEN [r  |-> [w.r EXCEPT !.buffer = <<>>, !.cap = CHUNK_CAPACITY,
                                 !.phase = "Streaming"],
              ok |-> TRUE]
        ELSE [r |-> drop(w.r, CHUNK_CALLS, TRUE), ok |-> FALSE]

\* Response<Fresh>::of_stream: headers, then io::copy of `copied` bytes of
\* the stream (all of them unless the copy fails); the response is consumed
of_stream(r, order, failAt, stream, copied) ==
    LET w == write_headers(r, order, failAt) IN
    IF ~w.ok THEN [r |-> drop(w.r, CHUNK_CALLS, TRUE), ok |-> FALSE]
    ELSE [r  |-> drop([w.r EXCEPT !.wire = @ \o SubSeq(stream, 1, copied)],
                      CHUNK_CALLS, TRUE),
          ok |-> copied >= Len(stream)]

\* Response<Streaming>::write_chunk
write_chunk(r, failAt) ==
    IF Len(r.buffer) = 0 THEN [r |-> r, ok |-> TRUE]
    ELSE LET w == write_chunk_raw(r.wire, r.buffer, failAt) IN
         IF w.ok THEN [r |-> [r EXCEPT !.wire = w.wire, !.buffer = <<>>],
                       ok |-> TRUE]
         ELSE [r |-> [r EXCEPT !.wire = w.wire], ok |-> FALSE]

\* a write that buffers what fits and drops the rest of buf
write_dropping_overflow(r, buf, failA, failB) ==
    LET buffer_cap_remaining == r.cap - Len(r.buffer) IN
    IF Len(buf) > buffer_cap_remaining
    THEN [r |-> [r EXCEPT !.buffer = @ \o SubSeq(buf, 1, buffer_cap_remaining)],
          ok |-> TRUE, n |-> Len(buf)]
    ELSE [r |-> [r EXCEPT !.buffer = @ \o buf], ok |-> TRUE, n |-> Len(buf)]

\* impl Write for Response<Streaming>: write; n is the count in Ok(n)
\* (write_all makes one call, as write always accepts the whole of buf)
write(r, buf, failA, failB) ==
    IF Len(buf) = 0 THEN [r |-> r, ok |-> TRUE, n |-> 0]
    ELSE
    LET buffer_cap_remaining == r.cap - Len(r.buffer) IN
    IF Len(buf) > buffer_cap_remaining
    THEN IF Len(buf) > r.cap
         THEN LET a == write_chunk(r, failA) IN
              IF ~a.ok THEN [r |-> a.r, ok |-> FALSE, n |-> 0]
              ELSE LET b == write_chunk_raw(a.r.wire, buf, failB) IN
                   [r |-> [a.r EXCEPT !.wire = b.wire], ok |-> b.ok,
                    n |-> IF b.ok THEN Len(buf) ELSE 0]
         ELSE LET r1 == [r EXCEPT !.buffer =
                             @ \o SubSeq(buf, 1, buffer_cap_remaining)]
                  a  == write_chunk(r1, failA)
              IN  IF ~a.ok THEN [r |-> a.r, ok |-> FALSE, n |-> 0]
                  ELSE [r  |-> [a.r EXCEPT !.buffer = @ \o
                                   SubSeq(buf, buffer_cap_remaining + 1, Len(buf))],
                        ok |-> TRUE, n |-> Len(buf)]
    ELSE [r |-> [r EXCEPT !.buffer = @ \o buf], ok |-> TRUE, n |-> Len(buf)]

\* impl Write for Response<Streaming>: flush
flush(r, failAt) ==
    IF Len(r.buffer) > 0 THEN write_chunk(r, failAt) ELSE [r |-> r, ok |-> TRUE]

\* error_messages::error_NNN: the status and the two headers it sets ...
error_page_prepare(r, code, reason, ctKey, clKey, len) ==
    headers_mut_insert(
        headers_mut_insert(set_status(r, code, reason), ctKey, B_text_html),
        clKey, len)

\* ... and the one-shot transfer of its canned body
error_400(r, order, failAt, copied) ==
    of_stream(error_page_prepare(r, 400, REASON_400, B_Content_type,
                                 B_Content_length, LEN_400),
              order, failAt, ERROR_400, copied)

error_404(r, order, failAt, copied) ==
    of_stream(error_page_prepare(r, 404, REASON_404, B_ContentType,
                                 B_ContentLength, LEN_404),
              order, failAt, ERROR_404, copied)

error_405(r, order, failAt, copied) ==
    of_stream(error_page_prepare(r, 405, REASON_405, B_ContentType,
                                 B_ContentLength, LEN_405),
              order, failAt, ERROR_405, copied)

error_500(r, order, failAt, copied) ==
    of_stream(error_page_prepare(r, 500, REASON_500, B_ContentType,
                                 B_ContentLength, LEN_500),
              order, failAt, ERROR_500, copied)

(***************************************************************************)
(* Path normalization (src/filesystem.rs).  Indices are the source's       *)
(* 0-based indices; a result is Ok(path), Err(error) or a panic (an index  *)
(* out of bounds).                                                         *)
(***************************************************************************)
At(path, i) == path[i + 1]

is_hexit(x) ==
    \/ (48 <= x /\ x <= 57)
    \/ (65 <= x /\ x <= 70)
    \/ (97 <= x /\ x <= 102)

from_hexit(x) ==
    IF 48 <= x /\ x <= 57 THEN x - 48
    ELSE IF 65 <= x /\ x <= 70 THEN x - 65 + 10
    ELSE x - 97 + 10

NormOk(buffer) == [kind |-> "Ok", path |-> buffer, err |-> "none"]
NormErr(e) == [kind |-> "Err", path |-> <<>>, err |-> e]
NormPanic == [kind |-> "Panic", path |-> <<>>, err |-> "none"]

RECURSIVE skip_slashes(_, _)
skip_slashes(path, i) ==
    IF i < Len(path) /\ At(path, i) = 47 THEN skip_slashes(path, i + 1) ELSE i

RECURSIVE normalize_loop(_, _, _)
normalize_loop(path, i, buffer) ==
    IF ~(i < Len(path)) THEN NormOk(buffer)
    ELSE IF At(path, i) = 47
    THEN normalize_loop(path, skip_slashes(path, i), buffer \o <<47>>)
    ELSE IF At(path, i) = 37
    THEN IF ~(Len(path) >= i + 2) THEN NormErr("IllegalPercentEncoding")
         ELSE IF ~(i + 2 < Len(path)) THEN NormPanic   \* path[i + 2]
         ELSE LET high_nybble == At(path, i + 1)
                  low_nybble  == At(path, i + 2)
              IN  IF ~is_hexit(high_nybble) \/ ~is_hexit(low_nybble)
                  THEN NormErr("IllegalPercentEncoding")
                  ELSE normalize_loop(path, i + 3,
                           buffer \o <<from_hexit(high_nybble) * 16
                                           + from_hexit(low_nybble)>>)
    ELSE normalize_loop(path, i + 1, buffer \o <<At(path, i)>>)

normalize_path(path) ==
    IF Len(path) = 0 THEN NormPanic                     \* path[0]
    ELSE IF At(path, 0) # 47 THEN NormErr("PathNotInOriginForm")
    ELSE normalize_loop(path, skip_slashes(path, 1), <<>>)

(***************************************************************************)
(* std::path::Path as the router uses it: a path is compared by its        *)
(* components (a leading '/' is the RootDir component, empty segments and  *)
(* inner "." segments are skipped).                                        *)
(***************************************************************************)
RECURSIVE Split(_, _)
Split(bytes, cur) ==
    IF bytes = <<>> THEN <<cur>>
    ELSE IF Head(bytes) = 47 THEN <<cur>> \o Split(Tail(bytes), <<>>)
    ELSE Split(Tail(bytes), Append(cur, Head(bytes)))

RECURSIVE SegComponents(_, _)
SegComponents(segs, first) ==
    IF segs = <<>> THEN <<>>
    ELSE LET s == Head(segs)
             c == IF s = <<>> THEN <<>>
                  ELSE IF s = <<46>> THEN (IF first THEN << <<"CurDir">> >> ELSE <<>>)
                  ELSE IF s = <<46, 46>> THEN << <<"ParentDir">> >>
                  ELSE << <<"Normal", s>> >>
         IN  c \o SegComponents(Tail(segs), FALSE)

Components(p) ==
    IF Len(p) > 0 /\ p[1] = 47
    THEN << <<"RootDir">> >> \o SegComponents(Split(p, <<>>), FALSE)
    ELSE SegComponents(Split(p, <<>>), TRUE)

\* Path::starts_with
Path_starts_with(path, base) ==
    LET c == Components(path)
        b == Components(base)
    IN  Len(b) <= Len(c) /\ SubSeq(c, 1, Len(b)) = b

\* PathBuf == PathBuf
Path_eq(a, b) == Components(a) = Components(b)

(***************************************************************************)
(* Router (src/server/router.rs).  routes is the Vec<Route>; a handler is  *)
(* named by a positive number.                                             *)
(***************************************************************************)
Router_new == <<>>

DispatchAny(handler) == [kind |-> "Any", handler |-> handler, map |-> <<>>]
DispatchSpecific(map) == [kind |-> "Specific", handler |-> 0, map |-> map]

MapInsert(map, key, value) ==
    [k \in (DOMAIN map) \cup {key} |-> IF k = key THEN value ELSE map[k]]

route_any(routes, path, handler) ==
    Append(routes, [path |-> path, handlers |-> DispatchAny(handler)])

\* index of the first route whose path equals `path`, 0 if there is none
RECURSIVE find_route(_, _, _)
find_route(routes, path, i) ==
    IF i > Len(routes) THEN 0
    ELSE IF Path_eq(routes[i].path, path) THEN i
    ELSE find_route(routes, path, i + 1)

\* a route that appends a new Specific route whatever the routes hold
route_appending(routes, path, method, handler) ==
    [routes |-> Append(routes,
                    [path |-> path,
                     handlers |-> DispatchSpecific(MapInsert(<<>>, method, handler))]),
     panic  |-> FALSE]

route(routes, path, method, handler) ==
    LET i == find_route(routes, path, 1) IN
    IF i > 0
    THEN IF routes[i].handlers.kind = "Specific"
         THEN [routes |-> [routes EXCEPT ![i].handlers.map =
                               MapInsert(@, method, handler)],
               panic  |-> FALSE]
         ELSE [routes |-> routes, panic |-> TRUE]
    ELSE [routes |-> Append(routes,
                        [path |-> path,
                         handlers |-> DispatchSpecific(
                                          MapInsert(<<>>, method, handler))]),
          panic  |-> FALSE]

\* what a request is dispatched to: a handler, or an error page
ToHandler(i, h) == [what |-> "handler", route |-> i, handler |-> h]
ToError(i, page) == [what |-> page, route |-> i, handler |-> 0]

\* impl Handler for MethodDispatch
MethodDispatch_serve(i, handlers, method) ==
    IF handlers.kind = "Any" THEN ToHandler(i, handlers.handler)
    ELSE IF method \in DOMAIN handlers.map
    THEN ToHandler(i, handlers.map[method])
    ELSE ToError(i, "error_405")

\* a router that keeps looking after a match and lets the last match win
RECURSIVE Router_serve_last_match(_, _, _, _)
Router_serve_last_match(routes, method, request_path, i) ==
    IF i > Len(routes) THEN ToError(0, "error_404")
    ELSE LET later == Router_serve_last_match(routes, method, request_path, i + 1) IN
         IF later.what # "error_404" \/ later.route # 0 THEN later
         ELSE IF Path_starts_with(request_path, routes[i].path)
         THEN MethodDispatch_serve(i, routes[i].handlers, method)
         ELSE later

\* Router::serve_inner: the loop over the routes, from route i on
RECURSIVE Router_serve_from(_, _, _, _)
Router_serve_from(routes, method, request_path, i) ==
    IF i > Len(routes) THEN ToError(0, "error_404")
    ELSE IF Path_starts_with(request_path, routes[i].path)
    THEN MethodDispatch_serve(i, routes[i].handlers, method)
    ELSE Router_serve_from(routes, method, request_path, i + 1)

Router_serve_inner(routes, method, request_path) ==
    Router_serve_from(routes, method, request_path, 1)

\* the response after the router has dealt with a fresh one: the error page
\* it serves, or the response as handed to the handler.  The canned pages
\* fit the BufWriter's buffer, so none of their writer calls reaches the
\* socket and none fails.
Router_response(decision, order) ==
    LET n == 3 * Len(order) + 2 IN
    IF decision.what = "error_404"
    THEN error_404(Response_new, order, n, Len(ERROR_404)).r
    ELSE IF decision.what = "error_405"
    THEN error_405(Response_new, order, n, Len(ERROR_405)).r
    ELSE Response_new

ErrorPageOrders(ctKey, clKey) ==
    HeaderOrders(Headers_insert(Headers_insert(Headers_new, ctKey, B_text_html),
                                clKey, <<>>))

(***************************************************************************)
(* Parsers.  A parser result is nom's IResult: Done(rest, value),          *)
(* Incomplete or Error.                                                    *)
(***************************************************************************)
Done(rest, val) == [kind |-> "Done", rest |-> rest, val |-> val]
Incomplete == [kind |-> "Incomplete"]
ParseError == [kind |-> "Error"]

\* the bytes of s from (0-based) index n on
DropBytes(s, n) == SubSeq(s, n + 1, Len(s))

\* tag!(t)
tag(input, t) ==
    IF Len(t) > Len(input) THEN Incomplete
    ELSE IF SubSeq(input, 1, Len(t)) = t THEN Done(DropBytes(input, Len(t)), t)
    ELSE ParseError

\* opt!(tag!(" "))
opt_space(input) ==
    LET r == tag(input, <<32>>) IN
    IF r.kind = "Error" THEN Done(input, <<>>) ELSE r

\* take!(n)
take(input, n) ==
    IF Len(input) < n THEN Incomplete
    ELSE Done(DropBytes(input, n), SubSeq(input, 1, n))

\* number of leading bytes of input that are not in `stops`
RECURSIVE PrefixLenTill(_, _)
PrefixLenTill(input, stops) ==
    IF input = <<>> \/ Head(input) \in stops THEN 0
    ELSE 1 + PrefixLenTill(Tail(input), stops)

\* take_till!(f), f being membership in `stops`; all of the input when no
\* byte stops it
take_till(input, stops) ==
    LET n == PrefixLenTill(input, stops) IN
    Done(DropBytes(input, n), SubSeq(input, 1, n))

\* number of leading bytes of input that are in `set`
RECURSIVE PrefixLenWhile(_, _)
PrefixLenWhile(input, set) ==
    IF input = <<>> \/ Head(input) \notin set THEN 0
    ELSE 1 + PrefixLenWhile(Tail(input), set)

\* take_while!(f)
take_while(input, set) ==
    LET n == PrefixLenWhile(input, set) IN
    Done(DropBytes(input, n), SubSeq(input, 1, n))

\* fn cr_or_lf, fn is_colon, fn lwsp
cr_or_lf == {10, 13}
is_colon == {58}
lwsp == {32, 9, 10}

\* nom::crlf
crlf(input) ==
    IF Len(input) < 2 THEN Incomplete
    ELSE IF SubSeq(input, 1, 2) = CRLF THEN Done(DropBytes(input, 2), CRLF)
    ELSE ParseError

\* nom::newline
newline(input) ==
    IF Len(input) < 1 THEN Incomplete
    ELSE IF input[1] = 10 THEN Done(Tail(input), <<10>>)
    ELSE ParseError

\* alt!(crlf | newline)
crlf_or_newline(input) ==
    LET r == crlf(input) IN
    IF r.kind = "Error" THEN newline(input) ELSE r

is_digit(x) == 48 <= x /\ x <= 57

\* named!(code): three digits, as a number
status_code(input) ==
    LET t == take(input, 3) IN
    IF t.kind # "Done" THEN t
    ELSE IF \E i \in 1..3 : ~is_digit(t.val[i]) THEN ParseError
    ELSE Done(t.rest, (t.val[1] - 48) * 100 + (t.val[2] - 48) * 10 + (t.val[3] - 48))

\* named!(status)
status(input) ==
    LET a == tag(input, B_StatusColon) IN
    IF a.kind # "Done" THEN a ELSE
    LET b == opt_space(a.rest) IN
    IF b.kind # "Done" THEN b ELSE
    LET c == status_code(b.rest) IN
    IF c.kind # "Done" THEN c ELSE
    LET d == tag(c.rest, <<32>>) IN
    IF d.kind # "Done" THEN d ELSE
    LET e == take_till(d.rest, cr_or_lf) IN
    Done(e.rest, [code |-> c.val, reason_phrase |-> e.val])

\* opt!(status)
opt_status(input) ==
    LET r == status(input) IN
    IF r.kind = "Error" THEN Done(input, [none |-> TRUE])
    ELSE IF r.kind = "Done" THEN Done(r.rest, [none |-> FALSE, some |-> r.val])
    ELSE r

\* named!(header)
header(input) ==
    LET a == take_till(input, is_colon)
        b == tag(a.rest, <<58>>)
    IN  IF b.kind # "Done" THEN b ELSE
        LET c == take_while(b.rest, lwsp)
            d == take_till(c.rest, cr_or_lf)
        IN  Done(d.rest, [name |-> a.val, content |-> d.val])

\* fn double_newline
double_newline(input) ==
    IF Len(input) < 2 THEN Incomplete
    ELSE IF SubSeq(input, 1, 2) = <<10, 10>> THEN Done(DropBytes(input, 2), <<>>)
    ELSE IF Len(input) < 3 THEN Incomplete
    ELSE IF SubSeq(input, 1, 3) = <<13, 10, 10>> THEN Done(DropBytes(input, 3), <<>>)
    ELSE IF Len(input) < 4 THEN Incomplete
    ELSE IF SubSeq(input, 1, 4) = <<13, 10, 13, 10>> THEN Done(DropBytes(input, 4), <<>>)
    ELSE ParseError

\* fn headers: the loop, with the headers collected so far
RECURSIVE headers_loop(_, _)
headers_loop(next, hdrs) ==
    LET h == header(next) IN
    IF h.kind # "Done" THEN h ELSE
    LET hdrs1 == Append(hdrs, h.val)
        dn == double_newline(h.rest)
    IN  IF dn.kind = "Done" THEN Done(dn.rest, hdrs1)
        ELSE IF dn.kind = "Incomplete" THEN Incomplete
        ELSE LET nl == crlf_or_newline(h.rest) IN
             IF nl.kind # "Done" THEN nl
             ELSE headers_loop(nl.rest, hdrs1)

headers(input) == headers_loop(input, <<>>)

\* named!(content_type)
content_type(input) ==
    LET a == tag(input, B_ContentTypeColon) IN
    IF a.kind # "Done" THEN a ELSE
    LET b == opt_space(a.rest) IN
    IF b.kind # "Done" THEN b ELSE
    LET c == take_till(b.rest, cr_or_lf) IN
    Done(c.rest, [name |-> B_ContentType, content |-> c.val])

\* chain!: the next parser runs on what the previous one left; its value
\* is dropped (Skip) or stored in a field of the value collected so far
Skip(r, next) ==
    IF next.kind # "Done" THEN next ELSE Done(next.rest, r.val)

WithContentType(r, next) ==
    IF next.kind # "Done" THEN next
    ELSE Done(next.rest, [r.val EXCEPT !.content_type = next.val])

WithHeaders(r, next) ==
    IF next.kind # "Done" THEN next
    ELSE Done(next.rest, [r.val EXCEPT !.headers = next.val])

doc_headers_status(r) ==
    IF r.kind # "Done" THEN r
    ELSE Done(r.rest, [content_type |-> <<>>, status |-> r.val, headers |-> <<>>])

doc_headers_newline(r) ==
    IF r.kind # "Done" THEN r ELSE Skip(r, crlf_or_newline(r.rest))

doc_headers_content_type(r) ==
    IF r.kind # "Done" THEN r ELSE WithContentType(r, content_type(r.rest))

doc_headers_headers(r) ==
    IF r.kind # "Done" THEN r ELSE WithHeaders(r, headers(r.rest))

\* named!(doc_headers): opt!(status), alt!(crlf | newline), content_type,
\* alt!(crlf | newline), headers
doc_headers(input) ==
    doc_headers_headers(
        doc_headers_newline(
            doc_headers_content_type(
                doc_headers_newline(
                    doc_headers_status(opt_status(input))))))

(***************************************************************************)
(* FastCGI records: the serializer the driver writes with and the parser   *)
(* it reads with.                                                          *)
(***************************************************************************)
\* fastcgi::record_kind
BEGIN_REQUEST == 1
ABORT_REQUEST == 2
END_REQUEST == 3
PARAMS == 4
STDIN == 5
STDOUT == 6
STDERR == 7
DATA == 8
GET_VALUES == 9
GET_VALUES_RESULT == 10
UNKNOWN_TYPE == 11
\* fastcgi::flags, Role::Responder, protocol_status
KEEP_CONN == 1
ROLE_RESPONDER == 1
REQUEST_COMPLETE == 0
\* std::u16::MAX
U16_MAX == 65535

\* write_u16::<BigEndian> of a value already cast to u16
be16(n) == <<(n % 65536) \div 256, n % 256>>

\* write_u32::<BigEndian>
be32(n) == <<(n \div 16777216) % 256, (n \div 65536) % 256, (n \div 256) % 256, n % 256>>

\* fn write_header: the eight header bytes and the padding length it returns
write_header(kind, id, content_length) ==
    IF content_length > U16_MAX THEN [ok |-> FALSE, bytes |-> <<>>, padding |-> 0]
    ELSE LET padding_length == IF content_length % 8 = 0 THEN 0
                               ELSE 8 - (content_length % 8)
         IN  [ok |-> TRUE,
              bytes |-> <<1, kind>> \o be16(id) \o be16(content_length)
                          \o <<padding_length, 0>>,
              padding |-> padding_length]

\* a name_length that counts one length byte whatever the length
name_length_one_byte(val) == Len(val) + 1

\* fn name_length
name_length(val) == Len(val) + (IF Len(val) > 127 THEN 4 ELSE 1)

\* fn write_name_val_pair
write_name_val_pair(name, val) ==
    (IF Len(name) > 127 THEN be32(Len(name)) ELSE <<Len(name)>>)
    \o (IF Len(val) > 127 THEN be32(Len(val)) ELSE <<Len(val)>>)
    \o name \o val

\* fn start_request: one BeginRequest record
start_request(id) ==
    LET h == write_header(BEGIN_REQUEST, id, 8) IN
    h.bytes \o be16(ROLE_RESPONDER) \o <<KEEP_CONN>> \o Fill(5, 0) \o Fill(h.padding, 0)

\* the sum of name_length(name) + name_length(value) over the pairs
RECURSIVE params_content_length(_)
params_content_length(pairs) ==
    IF pairs = <<>> THEN 0
    ELSE name_length(Head(pairs)[1]) + name_length(Head(pairs)[2])
           + params_content_length(Tail(pairs))

RECURSIVE params_content(_)
params_content(pairs) ==
    IF pairs = <<>> THEN <<>>
    ELSE write_name_val_pair(Head(pairs)[1], Head(pairs)[2]) \o params_content(Tail(pairs))

\* fn params: the records it writes, data record first, then the sentinel
params(id, pairs) ==
    LET h == write_header(PARAMS, id, params_content_length(pairs)) IN
    IF ~h.ok THEN [ok |-> FALSE, records |-> <<>>]
    ELSE LET s == write_header(PARAMS, id, 0) IN
         [ok |-> TRUE,
          records |-> << h.bytes \o params_content(pairs) \o Fill(h.padding, 0),
                         s.bytes \o Fill(s.padding, 0) >>]

\* fn stdin: one STDIN record
stdin(id, content) ==
    LET h == write_header(STDIN, id, Len(content)) IN
    [ok |-> h.ok,
     bytes |-> IF h.ok THEN h.bytes \o content \o Fill(h.padding, 0) ELSE <<>>]

\* the sum of name_length(name) + 1 over the names
RECURSIVE get_values_content_length(_)
get_values_content_length(get_for) ==
    IF get_for = <<>> THEN 0
    ELSE name_length(Head(get_for)) + 1 + get_values_content_length(Tail(get_for))

RECURSIVE get_values_content(_)
get_values_content(get_for) ==
    IF get_for = <<>> THEN <<>>
    ELSE write_name_val_pair(Head(get_for), <<>>) \o get_values_content(Tail(get_for))

\* fn get_values: one GET_VALUES record, request id 0
get_values(get_for) ==
    LET h == write_header(GET_VALUES, 0, get_values_content_length(get_for)) IN
    [ok |-> h.ok,
     bytes |-> IF h.ok THEN h.bytes \o get_values_content(get_for) \o Fill(h.padding, 0)
               ELSE <<>>]

\* be_u16, be_u32 of the parser, on bytes known to be there
u16_at(s, i) == s[i] * 256 + s[i + 1]
u32_at(s, i) == ((s[i] * 256 + s[i + 1]) * 256 + s[i + 2]) * 256 + s[i + 3]

\* ParseError::to_u32 and ParseError::from_u32; a parse error is the kind
\* of error and the number it carries
UnknownRole(role) == [error |-> "UnknownRole", n |-> role]
UnknownType(kind) == [error |-> "UnknownType", n |-> kind]

ParseError_to_u32(e) ==
    IF e.error = "UnknownRole" THEN e.n + 131072 ELSE e.n

ParseError_from_u32(repr) ==
    IF (repr \div 131072) % 2 # 0 THEN UnknownRole(repr % 65536)
    ELSE UnknownType(repr % 256)

\* IResult::Error(Err::Position(ErrorKind::Custom(code), _))
CustomError(code) == [kind |-> "Error", custom |-> code]

\* named!(begin_request): fn role, be_u8, take!(5)
begin_request(content) ==
    IF Len(content) < 2 THEN Incomplete
    ELSE IF u16_at(content, 1) \notin {1, 2, 3}
    THEN CustomError(ParseError_to_u32(UnknownRole(u16_at(content, 1))))
    ELSE IF Len(content) < 8 THEN Incomplete
    ELSE Done(DropBytes(content, 8),
              [kind |-> "BeginRequest", role |-> u16_at(content, 1), flags |-> content[3]])

\* named!(end_request)
end_request(content) ==
    IF Len(content) < 8 THEN Incomplete
    ELSE Done(DropBytes(content, 8),
              [kind |-> "EndRequest", app_status |-> u32_at(content, 1),
               protocol_status |-> content[5]])

\* named!(unknown_type)
unknown_type(content) ==
    IF Len(content) < 8 THEN Incomplete
    ELSE Done(DropBytes(content, 8), [kind |-> "UnknownType", type |-> content[1]])

\* be_u32 read as a length to take!.  No input has 2^31 bytes, and take!
\* of any length from 2^31 on wants more input: such a length is kept as
\* LENGTH_CAP
LENGTH_CAP == 2147483647
length_at(s, i) == IF s[i] >= 128 THEN LENGTH_CAP ELSE u32_at(s, i)

\* fn name_value_pair, last stage: take!(name_length), take!(value_length)
nvp_take_value(n, value_len) ==
    IF n.kind # "Done" THEN n
    ELSE IF Len(n.rest) < value_len THEN Incomplete
    ELSE Done(DropBytes(n.rest, value_len),
              [name |-> n.val, value |-> SubSeq(n.rest, 1, value_len)])

nvp_takes(in4, name_len, value_len) ==
    nvp_take_value(take(in4, name_len), value_len)

\* fn name_value_pair, second stage: the value length.  A first byte with
\* its top bit set makes it read be_u32 from in3, the input after that
\* byte
nvp_value_length(in2, name_len) ==
    IF Len(in2) < 1 THEN Incomplete
    ELSE IF in2[1] \div 128 = 1
    THEN IF Len(in2) < 5 THEN Incomplete
         ELSE nvp_takes(DropBytes(in2, 5), name_len, length_at(in2, 2))
    ELSE nvp_takes(Tail(in2), name_len, in2[1])

\* fn name_value_pair: the name length.  A first byte with its top bit set
\* makes it read be_u32 from input, the whole field, and keep all 32 bits
name_value_pair(input) ==
    IF Len(input) < 1 THEN Incomplete
    ELSE IF input[1] \div 128 = 1
    THEN IF Len(input) < 4 THEN Incomplete
         ELSE nvp_value_length(DropBytes(input, 4), length_at(input, 1))
    ELSE nvp_value_length(Tail(input), input[1])

\* nom 1.x many0!: what it does when the inner parser wants more input
\* differs between releases; it either stops and returns the pairs it has
\* or returns Incomplete
Many0Modes == {"stops", "propagates"}

\* named!(name_value_pairs): many0!(name_value_pair)
RECURSIVE name_value_pairs_loop(_, _, _)
name_value_pairs_next(input, res, r, many0) ==
    IF r.kind = "Done" THEN name_value_pairs_loop(r.rest, Append(res, r.val), many0)
    ELSE IF r.kind = "Incomplete" /\ many0 = "propagates" THEN Incomplete
    ELSE Done(input, res)

name_value_pairs_loop(input, res, many0) ==
    IF input = <<>> THEN Done(input, res)
    ELSE name_value_pairs_next(input, res, name_value_pair(input), many0)

name_value_pairs(input, many0) == name_value_pairs_loop(input, <<>>, many0)

\* map!(name_value_pairs, Content::Params) and Content::GetValues
pairs_content(r, variant) ==
    IF r.kind # "Done" THEN r
    ELSE Done(r.rest, [kind |-> variant, pairs |-> r.val])

\* the match on the record kind in fn record
record_content(kind, content, many0) ==
    CASE kind = BEGIN_REQUEST -> begin_request(content)
      [] kind = ABORT_REQUEST -> Done(content, [kind |-> "AbortRequest"])
      [] kind = END_REQUEST -> end_request(content)
      [] kind = PARAMS -> pairs_content(name_value_pairs(content, many0), "Params")
      [] kind = STDIN -> Done(content, [kind |-> "Stdin", data |-> content])
      [] kind = STDOUT -> Done(content, [kind |-> "Stdout", data |-> content])
      [] kind = STDERR -> Done(content, [kind |-> "Stderr", data |-> content])
      [] kind = DATA -> Done(content, [kind |-> "Data", data |-> content])
      [] kind = GET_VALUES -> pairs_content(name_value_pairs(content, many0), "GetValues")
      [] kind = UNKNOWN_TYPE -> unknown_type(content)
      [] OTHER -> CustomError(ParseError_to_u32(UnknownType(kind)))

\* fn record, last stage: the record around its parsed content
record_around(input, c, id, length) ==
    IF c.kind # "Done" THEN c
    ELSE Done(DropBytes(input, length), [id |-> id, content |-> c.val])

\* fn record, with the many0! of the nom release it is built against
record_many0(input, many0) ==
    IF Len(input) < 8 THEN Incomplete
    ELSE IF Len(input) < 8 + u16_at(input, 5) + input[7] THEN Incomplete
    ELSE record_around(input,
                       record_content(input[2], SubSeq(input, 9, 8 + u16_at(input, 5)),
                                      many0),
                       u16_at(input, 3), 8 + u16_at(input, 5) + input[7])

\* fn record as the driver uses it: no record it reads or writes makes
\* name_value_pair want more input, so the two many0! agree
record(input) == record_many0(input, "propagates")


(***************************************************************************)
(* The FastCGI driver (src/fastcgi/driver.rs): the pure parts of           *)
(* Connection::serve_inner.  A request as the driver sees it is a record   *)
(*   method, uri, headers   what InnerRequest::parse produced              *)
(*   remote_addr, local_port                                               *)
(*   segs    the body bytes still to come, as the client socket delivers   *)
(*           them                                                          *)
(*   end     how the body ends: "eof", "wouldblock" (read timeout) or      *)
(*           "reset" (any other read error)                                *)
(***************************************************************************)
\* let mut client_buffer = [0; 4096]
CLIENT_BUFFER == 4096

\* PathBuf::join
Path_join(base, p) ==
    IF p # <<>> /\ p[1] = 47 THEN p
    ELSE IF base # <<>> /\ base[Len(base)] = 47 THEN base \o p
    ELSE base \o <<47>> \o p

\* position of the first '?' (0-based), or Len(s) when there is none
RECURSIVE position_qmark(_)
position_qmark(s) ==
    IF s = <<>> \/ Head(s) = 63 THEN 0 ELSE 1 + position_qmark(Tail(s))

\* name.replace("-", "_").to_ascii_uppercase()
meta_name(name) ==
    [i \in 1..Len(name) |-> IF name[i] = 45 THEN 95 ELSE to_ascii_uppercase(name[i])]

\* the HTTP_* pairs, in the order the header map is iterated
RECURSIVE http_metavars(_, _)
http_metavars(h, order) ==
    IF order = <<>> THEN <<>>
    ELSE << << <<72, 84, 84, 80, 95>> \o meta_name(Head(order)), h[Head(order)] >> >>
            \o http_metavars(h, Tail(order))

\* the name-value pairs initialize_request collects (uri not empty)
metavars(webroot, req, order) ==
    LET uri == req.uri
        q == position_qmark(uri)
    IN
    << \* GATEWAY_INTERFACE = CGI/1.1
       << <<71, 65, 84, 69, 87, 65, 89, 95, 73, 78, 84, 69, 82, 70, 65, 67, 69>>,
          <<67, 71, 73, 47, 49, 46, 49>> >>,
       \* PATH_INFO
       << <<80, 65, 84, 72, 95, 73, 78, 70, 79>>, uri >>,
       \* PATH_TRANSLATED
       << <<80, 65, 84, 72, 95, 84, 82, 65, 78, 83, 76, 65, 84, 69, 68>>,
          Path_join(webroot, DropBytes(uri, 1)) >>,
       \* QUERY_STRING
       << <<81, 85, 69, 82, 89, 95, 83, 84, 82, 73, 78, 71>>, DropBytes(uri, q) >>,
       \* REMOTE_ADDR
       << <<82, 69, 77, 79, 84, 69, 95, 65, 68, 68, 82>>, req.remote_addr >>,
       \* REMOTE_HOST
       << <<82, 69, 77, 79, 84, 69, 95, 72, 79, 83, 84>>, req.remote_addr >>,
       \* REQUEST_METHOD
       << <<82, 69, 81, 85, 69, 83, 84, 95, 77, 69, 84, 72, 79, 68>>, req.method >>,
       \* SCRIPT_NAME
       << <<83, 67, 82, 73, 80, 84, 95, 78, 65, 77, 69>>, <<>> >>,
       \* SERVER_NAME
       << <<83, 69, 82, 86, 69, 82, 95, 78, 65, 77, 69>>,
          IF Headers_has(req.headers, B_Host) THEN Headers_get(req.headers, B_Host).val
          ELSE <<>> >>,
       \* SERVER_PORT
       << <<83, 69, 82, 86, 69, 82, 95, 80, 79, 82, 84>>, Dec(req.local_port) >>,
       \* SERVER_PROTOCOL = HTTP/1.1
       << <<83, 69, 82, 86, 69, 82, 95, 80, 82, 79, 84, 79, 67, 79, 76>>,
          <<72, 84, 84, 80, 47, 49, 46, 49>> >>,
       \* SERVER_SOFTWARE = toy http-server 0.2 (hella unstable)
       << <<83, 69, 82, 86, 69, 82, 95, 83, 79, 70, 84, 87, 65, 82, 69>>,
          <<116, 111, 121, 32, 104, 116, 116, 112, 45, 115, 101, 114, 118, 101,
            114, 32, 48, 46, 50, 32, 40, 104, 101, 108, 108, 97, 32, 117, 110,
            115, 116, 97, 98, 108, 101, 41>> >> >>
    \o http_metavars(req.headers, order)

\* a request number that is taken modulo 256 before it is used
request_number_of_masked(counter) == (counter + 1) % 256

\* driver.rs 49: the request number is the counter read, plus one
request_number_of(counter) == counter + 1

\* driver.rs 50: what is stored back in the counter (request_number & 0xFF)
stored_counter(number) == number % 256

\* driver.rs 58: request_number as u16
as_u16(number) == number % 65536

\* an initialize_request that sends the parameters before the BeginRequest
initialize_request_params_first(webroot, request_number, req, order) ==
    IF Len(req.uri) < 1 THEN [panic |-> TRUE, ok |-> FALSE, records |-> <<>>]
    ELSE LET p == params(request_number, metavars(webroot, req, order)) IN
         [panic |-> FALSE, ok |-> p.ok,
          records |-> p.records \o <<start_request(request_number)>>]

\* Connection::initialize_request: the records it hands to its BufWriter.
\* Slicing the uri from index 1 panics on an empty uri, before anything is
\* written; a params error leaves the BeginRequest in the BufWriter, which
\* its destructor flushes.
initialize_request(webroot, request_number, req, order) ==
    IF Len(req.uri) < 1 THEN [panic |-> TRUE, ok |-> FALSE, records |-> <<>>]
    ELSE LET p == params(request_number, metavars(webroot, req, order)) IN
         [panic |-> FALSE, ok |-> p.ok,
          records |-> <<start_request(request_number)>> \o p.records]

\* BufReader::fill_buf on the upstream socket.  rbuf: the bytes buffered
\* and not yet consumed; incoming: the bytes the socket holds; closed: the
\* upstream has closed.  The buffer is refilled only when it is empty; a
\* refill takes what the socket holds (always less than the BufReader's
\* capacity here); with nothing to read and the socket open, the read
\* blocks (no outcome); at end of file the buffer stays empty.
fill_buf(rbuf, incoming, closed) ==
    IF rbuf # <<>>
    THEN { [buf |-> rbuf, incoming |-> incoming, read |-> FALSE] }
    ELSE IF incoming # <<>>
    THEN { [buf |-> incoming, incoming |-> <<>>, read |-> TRUE] }
    ELSE IF closed
    THEN { [buf |-> <<>>, incoming |-> <<>>, read |-> TRUE] }
    ELSE {}

\* copying the parsed CGI headers into the response (driver.rs 112-131)
RECURSIVE insert_cgi_headers(_, _)
insert_cgi_headers(r, hdrs) ==
    IF hdrs = <<>> THEN r
    ELSE insert_cgi_headers(
             headers_mut_insert(r, Head(hdrs).name, Head(hdrs).content),
             Tail(hdrs))

\* a translation that leaves the status of the response as it is
apply_doc_headers_keeping_status(r, hdrs) ==
    insert_cgi_headers(headers_mut_insert(r, B_ContentType, hdrs.content_type.content),
                       hdrs.headers)

apply_doc_headers(r, hdrs) ==
    LET r1 == headers_mut_insert(r, B_ContentType, hdrs.content_type.content)
        r2 == IF hdrs.status.none THEN r1
              ELSE set_status(r1, hdrs.status.some.code, hdrs.status.some.reason_phrase)
    IN  insert_cgi_headers(r2, hdrs.headers)

\* One iteration of the header loop (driver.rs 88-161) on the buffer
\* fill_buf returned.  s: the locals of serve_inner.  The result says how
\* the iteration ends: "continue" (next iteration), "finished" (headers
\* parsed), "err" (return Err) or "panic" (unimplemented!()).
header_iteration(s, read_buffer) ==
    IF s.last = Len(read_buffer)
    THEN [how |-> "panic", s |-> [s EXCEPT !.stalled = "headers"]]
    ELSE
    LET s1 == [s EXCEPT !.last = Len(read_buffer)]
        r == record(read_buffer)
    IN
    IF r.kind = "Error" THEN [how |-> "panic", s |-> s1]
    ELSE IF r.kind = "Incomplete"
    THEN [how |-> "continue", s |-> [s1 EXCEPT !.rbuf = read_buffer]]
    ELSE IF r.val.id # s.num
    THEN [how |-> "err", s |-> s1]
    ELSE IF r.val.content.kind = "Stdout"
    THEN LET buffer == s.buffer \o r.val.content.data
             d == doc_headers(buffer)
             s2 == [s1 EXCEPT !.buffer = buffer, !.rbuf = r.rest,
                        !.taken = @ \o SubSeq(read_buffer, 1, Len(read_buffer) - Len(r.rest))]
         IN  IF d.kind = "Error" THEN [how |-> "panic", s |-> s2]
             ELSE IF d.kind = "Incomplete" THEN [how |-> "continue", s |-> s2]
             ELSE [how |-> "finished",
                   s |-> [s2 EXCEPT !.res = apply_doc_headers(@, d.val),
                                    !.unconsumed = Len(buffer) - Len(d.rest)]]
    ELSE IF r.val.content.kind = "Stderr"
    THEN [how |-> "continue", s |-> [s1 EXCEPT !.rbuf = r.rest,
                        !.taken = @ \o SubSeq(read_buffer, 1, Len(read_buffer) - Len(r.rest))]]
    ELSE [how |-> "err", s |-> s1]

\* res.start() and the write of the residual body bytes (driver.rs 162-168);
\* the client socket accepts every write
start_streaming(s, order) ==
    LET st == start(s.res, order, 3 * Len(order) + 2)
        w == write(st.r, DropBytes(s.buffer, s.unconsumed), CHUNK_CALLS, CHUNK_CALLS)
    IN  [s EXCEPT !.res = w.r, !.started = TRUE, !.last = 0, !.pc = "body"]

\* a body loop that sends the Stderr content to the client as well
body_iteration_forwarding_stderr(s, read_buffer) ==
    IF s.last = Len(read_buffer)
    THEN [how |-> "err", s |-> [s EXCEPT !.stalled = "body"]]
    ELSE
    LET s1 == [s EXCEPT !.last = Len(read_buffer)]
        r == record(read_buffer)
    IN
    IF r.kind = "Error" THEN [how |-> "panic", s |-> s1]
    ELSE IF r.kind = "Incomplete"
    THEN [how |-> "continue", s |-> [s1 EXCEPT !.rbuf = read_buffer]]
    ELSE
    LET s2 == [s1 EXCEPT !.last = Len(r.rest), !.rbuf = r.rest,
                        !.taken = @ \o SubSeq(read_buffer, 1, Len(read_buffer) - Len(r.rest))]
        c == r.val.content
    IN
    IF r.val.id # s.num THEN [how |-> "err", s |-> s2]
    ELSE IF c.kind = "Stdout"
    THEN [how |-> "continue",
          s |-> [s2 EXCEPT !.res = write(@, c.data, CHUNK_CALLS, CHUNK_CALLS).r]]
    ELSE IF c.kind = "Stderr"
    THEN [how |-> "continue",
          s |-> [s2 EXCEPT !.res = write(@, c.data, CHUNK_CALLS, CHUNK_CALLS).r]]
    ELSE IF c.kind = "EndRequest" THEN [how |-> "ok", s |-> s2]
    ELSE [how |-> "err", s |-> s2]

\* One iteration of the body loop (driver.rs 169-225); "ok": EndRequest seen
body_iteration(s, read_buffer) ==
    IF s.last = Len(read_buffer)
    THEN [how |-> "err", s |-> [s EXCEPT !.stalled = "body"]]
    ELSE
    LET s1 == [s EXCEPT !.last = Len(read_buffer)]
        r == record(read_buffer)
    IN
    IF r.kind = "Error" THEN [how |-> "panic", s |-> s1]
    ELSE IF r.kind = "Incomplete"
    THEN [how |-> "continue", s |-> [s1 EXCEPT !.rbuf = read_buffer]]
    ELSE
    LET s2 == [s1 EXCEPT !.last = Len(r.rest), !.rbuf = r.rest,
                        !.taken = @ \o SubSeq(read_buffer, 1, Len(read_buffer) - Len(r.rest))]
        c == r.val.content
    IN
    IF r.val.id # s.num THEN [how |-> "err", s |-> s2]
    ELSE IF c.kind = "Stdout"
    THEN [how |-> "continue",
          s |-> [s2 EXCEPT !.res = write(@, c.data, CHUNK_CALLS, CHUNK_CALLS).r]]
    ELSE IF c.kind = "Stderr" THEN [how |-> "continue", s |-> s2]
    ELSE IF c.kind = "EndRequest" THEN [how |-> "ok", s |-> s2]
    ELSE [how |-> "err", s |-> s2]

(***************************************************************************)
(* State.  Each specification below drives one group of variables and      *)
(* leaves the other groups at their initial values.                        *)
(***************************************************************************)
VARIABLES
    \* SpecResponse: one Response object under arbitrary handler operations
    res,          \* the response value
    clientUp,     \* FALSE once the client socket fails (disconnect, timeout)
    nops,         \* handler operations performed so far
    hdrWrites,    \* history: number of write_headers calls on this response
    committed,    \* history: status and headers as write_headers saw them
    atDrop,       \* history: the response as its destructor found it
    lastop,       \* history: the last operation, its input and the response before
    accepted,     \* history: the bytes write() accepted, in order
    \* SpecRouter: a Router under registrations and requests
    routes,       \* Router.routes
    nreg,         \* registrations made so far (names the next handler)
    rpanic,       \* TRUE once a registration panicked
    routed,       \* the last request served: what it was and where it went
    registered,   \* history: the last registration call and the routes before it
    \* SpecServe: the accept loop of serve()
    srv,          \* "accepting", "returned" (serve returned) or "panicked"
    nconn,        \* connections taken from the listener so far
    lastc,        \* the last connection: what came in and what became of it
    \* SpecDriver: one Connection used by handler threads
    request_id,   \* Connection.request_id (AtomicUsize)
    conn,         \* Connection.conn: the mutex, its holder and its poison flag
    th,           \* per thread: where it is in serve_inner, and its locals
    nserved,      \* serve calls started so far (numbers the requests)
    upOut,        \* the records written to the upstream socket, and by whom
    upIn,         \* what the upstream sent and the driver has not read yet
    upClosed,     \* the upstream closed the connection
    upScript,     \* the records the upstream has still to send
    ioUnlocked,   \* history: upstream I/O happened without holding the mutex
    aborts,       \* history: the requests serve_inner aborted after locking
    \* SpecCodec: the FastCGI serializer and parser on one byte stream
    sent,         \* the serializer call made, or the frame a peer sent
    wire,         \* the records written, each with the content bytes written
    unread,       \* the bytes of the stream the parser has not consumed
    got,          \* the results of the calls of record(), in order
    \* SpecCgi: doc_headers on one CGI document
    document,     \* the document: its parts and its bytes
    parsed,       \* the result of doc_headers
    \* SpecPath: normalize_path on one request target
    request_path, \* the target
    normalized,   \* the result of normalize_path
    \* SpecHeaders: one Headers map under inserts and lookups
    hmap,         \* Headers.map
    inserted,     \* history: the (name, value) of every insert, in order
    looked,       \* the last get: its name, its result, the inserts before it
    \* SpecParse: parse_inner on one client connection
    parsing       \* the client's bytes, the reader's buffer and the loop's locals

respVars == <<res, clientUp, nops, hdrWrites, committed, atDrop, lastop, accepted>>
routerVars == <<routes, nreg, rpanic, routed, registered>>

serveVars == <<srv, nconn, lastc>>
driverVars == <<request_id, conn, th, nserved, upOut, upIn, upClosed, upScript,
                ioUnlocked, aborts>>

codecVars == <<sent, wire, unread, got>>
cgiVars == <<document, parsed>>
pathVars == <<request_path, normalized>>
headersVars == <<hmap, inserted, looked>>
parseVars == <<parsing>>

\* the groups of the specifications that exercise functions one at a time
functionVars == <<codecVars, cgiVars, pathVars, headersVars, parseVars>>
\* the groups of the specifications of the server's objects
objectVars == <<respVars, routerVars, serveVars, driverVars>>

vars == <<objectVars, functionVars>>

notRespVars == <<routerVars, serveVars, driverVars, functionVars>>
notRouterVars == <<respVars, serveVars, driverVars, functionVars>>
notServeVars == <<respVars, routerVars, driverVars, functionVars>>
notDriverVars == <<respVars, routerVars, serveVars, functionVars>>
notCodecVars == <<objectVars, cgiVars, pathVars, headersVars, parseVars>>
notCgiVars == <<objectVars, codecVars, pathVars, headersVars, parseVars>>
notPathVars == <<objectVars, codecVars, cgiVars, headersVars, parseVars>>
notHeadersVars == <<objectVars, codecVars, cgiVars, pathVars, parseVars>>
notParseVars == <<objectVars, codecVars, cgiVars, pathVars, headersVars>>

NoSnapshot == [set |-> FALSE]

CodecIdle ==
    /\ sent = NoSnapshot
    /\ wire = <<>>
    /\ unread = <<>>
    /\ got = <<>>

CgiIdle ==
    /\ document = NoSnapshot
    /\ parsed = NoSnapshot

PathIdle ==
    /\ request_path = <<>>
    /\ normalized = NoSnapshot

HeadersIdle ==
    /\ hmap = Headers_new
    /\ inserted = <<>>
    /\ looked = NoSnapshot

ParseIdle == parsing = NoSnapshot

FunctionsIdle ==
    /\ ParseIdle
    /\ CodecIdle
    /\ CgiIdle
    /\ PathIdle
    /\ HeadersIdle

RespIdle ==
    /\ res = [phase |-> "Gone"]
    /\ clientUp = TRUE
    /\ nops = 0
    /\ hdrWrites = 0
    /\ committed = NoSnapshot
    /\ atDrop = NoSnapshot
    /\ lastop = NoSnapshot
    /\ accepted = <<>>

RouterIdle ==
    /\ routes = <<>>
    /\ nreg = 0
    /\ rpanic = FALSE
    /\ routed = NoSnapshot
    /\ registered = NoSnapshot

ServeIdle ==
    /\ srv = "accepting"
    /\ nconn = 0
    /\ lastc = NoSnapshot

Threads == {1, 2}

NoRequest == [uri |-> <<>>]

\* the locals of serve_inner before it is called; stalled (history): the
\* loop in which a refill brought as many bytes as the one before; taken
\* (history): the bytes of the records the loops have consumed
IdleThread ==
    [pc |-> "idle", by |-> 0, num |-> 0, req |-> NoRequest, body0 |-> <<>>,
     rbuf |-> <<>>, last |-> 0, buffer |-> <<>>, unconsumed |-> 0, nreads |-> 0,
     res |-> [phase |-> "Gone"], started |-> FALSE, script |-> "none",
     result |-> "none", err |-> "none", stalled |-> "none",
     taken |-> <<>>]

DriverIdle ==
    /\ request_id = 0
    /\ conn = [holder |-> 0, poisoned |-> FALSE]
    /\ th = [t \in Threads |-> IdleThread]
    /\ nserved = 0
    /\ upOut = <<>>
    /\ upIn = <<>>
    /\ upClosed = FALSE
    /\ upScript = <<>>
    /\ ioUnlocked = FALSE
    /\ aborts = {}
(***************************************************************************)
(* SpecResponse: a handler that owns one Response and applies any sequence *)
(* of the operations the type of the value allows: set_status, headers_mut *)
(* insert, start and of_stream on Response<Fresh>; write and flush on      *)
(* Response<Streaming>; the destructor on either.                          *)
(***************************************************************************)
MaxOps == 4

StatusChoices == { <<404, REASON_404>>, <<500, REASON_500>> }

InsertChoices ==
    { <<B_ContentType, B_text_plain>>,
      <<B_Content_type, B_text_html>>,
      <<B_TransferEncoding, B_OK>>,
      <<B_ContentLength, <<53>>>> }

WriteBufs ==
    { B_Hello, <<120, 121>>, Fill(CHUNK_CAPACITY - 2, 97), Fill(CHUNK_CAPACITY + 1, 98) }

StreamBodies == { <<>>, B_Hello }

\* fail points a writer call sequence of n calls may take
FailPoints(up, n) == IF up THEN {n} ELSE 0..n

InitResponse ==
    /\ res = Response_new
    /\ clientUp = TRUE
    /\ nops = 0
    /\ hdrWrites = 0
    /\ committed = NoSnapshot
    /\ atDrop = NoSnapshot
    /\ lastop = NoSnapshot
    /\ accepted = <<>>
    /\ RouterIdle
    /\ ServeIdle
    /\ DriverIdle
    /\ FunctionsIdle

\* the operation `op` on the response `before`, given `buf`: the response
\* before it (without the bytes already on the wire), the bytes it sent,
\* whether it returned Ok (ok) and the count it then returned (n)
Op(op, before, buf, after, ok, n) ==
    [set |-> TRUE, op |-> op, before |-> [before EXCEPT !.wire = <<>>], buf |-> buf,
     sent |-> SubSeq(after.wire, Len(before.wire) + 1, Len(after.wire)),
     ok |-> ok, n |-> n]

Snapshot(r) == [set |-> TRUE, code |-> r.code, reason |-> r.reason,
                headers |-> r.headers]

RSetStatus ==
    /\ res.phase = "Fresh"
    /\ nops < MaxOps
    /\ \E c \in StatusChoices : res' = set_status(res, c[1], c[2])
    /\ lastop' = Op("set_status", res, <<>>, res', TRUE, 0)
    /\ nops' = nops + 1
    /\ UNCHANGED <<clientUp, hdrWrites, committed, atDrop, accepted>>
    /\ UNCHANGED notRespVars

RHeadersInsert ==
    /\ res.phase = "Fresh"
    /\ nops < MaxOps
    /\ \E kv \in InsertChoices : res' = headers_mut_insert(res, kv[1], kv[2])
    /\ lastop' = Op("insert", res, <<>>, res', TRUE, 0)
    /\ nops' = nops + 1
    /\ UNCHANGED <<clientUp, hdrWrites, committed, atDrop, accepted>>
    /\ UNCHANGED notRespVars

RStart ==
    /\ res.phase = "Fresh"
    /\ nops < MaxOps
    /\ LET h == Headers_insert(res.headers, B_TransferEncoding, B_Chunked) IN
       \E order \in HeaderOrders(h) :
       \E failAt \in FailPoints(clientUp, 3 * Len(order) + 2) :
          /\ res' = start(res, order, failAt).r
          /\ lastop' = Op("start", res, <<>>, res', start(res, order, failAt).ok, 0)
          /\ committed' = Snapshot([res EXCEPT !.headers = h])
    /\ hdrWrites' = hdrWrites + 1
    /\ nops' = nops + 1
    /\ UNCHANGED <<clientUp, atDrop, accepted>>
    /\ UNCHANGED notRespVars

ROfStream ==
    /\ res.phase = "Fresh"
    /\ nops < MaxOps
    /\ \E order \in HeaderOrders(res.headers) :
       \E failAt \in FailPoints(clientUp, 3 * Len(order) + 2) :
       \E body \in StreamBodies :
       \E copied \in {0, Len(body)} :
          /\ clientUp => copied = Len(body)
          /\ res' = of_stream(res, order, failAt, body, copied).r
          /\ lastop' = Op("of_stream", res, body, res',
                          of_stream(res, order, failAt, body, copied).ok, 0)
    /\ committed' = Snapshot(res)
    /\ hdrWrites' = hdrWrites + 1
    /\ nops' = nops + 1
    /\ UNCHANGED <<clientUp, atDrop, accepted>>
    /\ UNCHANGED notRespVars

RWrite ==
    /\ res.phase = "Streaming"
    /\ nops < MaxOps
    /\ \E buf \in WriteBufs :
       \E failA \in FailPoints(clientUp, CHUNK_CALLS) :
       \E failB \in FailPoints(clientUp, CHUNK_CALLS) :
          LET w == write(res, buf, failA, failB) IN
          /\ res' = w.r
          /\ lastop' = Op("write", res, buf, w.r, w.ok, w.n)
          /\ accepted' = accepted \o SubSeq(buf, 1, w.n)
    /\ nops' = nops + 1
    /\ UNCHANGED <<clientUp, hdrWrites, committed, atDrop>>
    /\ UNCHANGED notRespVars

RFlush ==
    /\ res.phase = "Streaming"
    /\ nops < MaxOps
    /\ \E failAt \in FailPoints(clientUp, CHUNK_CALLS) :
          /\ res' = flush(res, failAt).r
          /\ lastop' = Op("flush", res, <<>>, res', flush(res, failAt).ok, 0)
    /\ nops' = nops + 1
    /\ UNCHANGED <<clientUp, hdrWrites, committed, atDrop, accepted>>
    /\ UNCHANGED notRespVars

RDrop ==
    /\ res.phase \in {"Fresh", "Streaming"}
    /\ \E failAt \in FailPoints(clientUp, CHUNK_CALLS) :
       \E lastOk \in {TRUE} \cup {clientUp} :
          /\ res' = drop(res, failAt, lastOk)
          /\ atDrop' = [set |-> TRUE, phase |-> res.phase, buffer |-> res.buffer,
                        wire |-> res.wire,
                        accepted |-> (failAt >= CHUNK_CALLS - 1) /\ lastOk]
    /\ lastop' = Op("drop", res, <<>>, res', TRUE, 0)
    /\ UNCHANGED <<clientUp, nops, hdrWrites, committed, accepted>>
    /\ UNCHANGED notRespVars

RClientFails ==
    /\ clientUp
    /\ res.phase # "Gone"
    /\ clientUp' = FALSE
    /\ UNCHANGED <<res, nops, hdrWrites, committed, atDrop, lastop, accepted>>
    /\ UNCHANGED notRespVars

NextResponse ==
    \/ RSetStatus
    \/ RHeadersInsert
    \/ RStart
    \/ ROfStream
    \/ RWrite
    \/ RFlush
    \/ RDrop
    \/ RClientFails

SpecResponse == InitResponse /\ [][NextResponse]_vars

\* C1: the status line and header block are written at most once per
\* response (by start or by of_stream), nothing is on the wire while the
\* response is Fresh, once they are written the response is never Fresh
\* again, and its status and headers stay as they were written.
C1_HeadersWrittenOnce ==
    /\ hdrWrites <= 1
    /\ res.phase = "Fresh" => (res.wire = <<>> /\ hdrWrites = 0)
    /\ hdrWrites >= 1 => /\ res.phase # "Fresh"
                         /\ committed = Snapshot(res)

\* C1 witness: a response that was started and has buffered body bytes since
C1_Witness ==
    /\ hdrWrites = 1
    /\ res.phase = "Streaming"
    /\ Len(res.buffer) > 0
    /\ Len(res.wire) > 0

\* C2: when a response that entered Streaming is destroyed and the writer
\* accepts the destructor's calls, the bytes still in the chunk buffer go
\* out as one final chunk and the last bytes written are "0\r\n".
C2_DropTerminates ==
    (res.phase = "Gone" /\ atDrop.set /\ atDrop.phase = "Streaming"
         /\ atDrop.accepted)
    => /\ res.wire = atDrop.wire \o Hex(Len(atDrop.buffer)) \o CRLF
                         \o atDrop.buffer \o CRLF \o B_LastChunk
       /\ EndsWith(res.wire, B_LastChunk)

\* C2 witness: a Streaming response destroyed with bytes still buffered
C2_Witness ==
    /\ res.phase = "Gone"
    /\ atDrop.set
    /\ atDrop.phase = "Streaming"
    /\ atDrop.accepted
    /\ Len(atDrop.buffer) > 0


(***************************************************************************)
(* SpecRouter: a Router that is set up by route_any/route calls and serves *)
(* requests.  A request reaches the router as make_request_pair builds it: *)
(* its request-uri is normalize_path of the request-target.  As in serve(), *)
(* the routes are registered before the first request is served.           *)
(***************************************************************************)
MaxRoutes == 2

Prefixes == { P_Slash, P_SlashStatic, P_SlashStaticSlash, P_Static, <<>> }

Methods == { B_GET, B_POST }

RouterTargets == { P_Slash, T_StaticX, T_Static2X, T_Staticx, T_X }

InitRouter ==
    /\ RouterIdle
    /\ RespIdle
    /\ FunctionsIdle
    /\ ServeIdle
    /\ DriverIdle

RouteAny ==
    /\ ~rpanic
    /\ ~routed.set
    /\ nreg < MaxRoutes
    /\ \E path \in Prefixes :
          /\ routes' = route_any(routes, path, nreg + 1)
          /\ registered' = [set |-> TRUE, call |-> "route_any", path |-> path,
                            method |-> <<>>, handler |-> nreg + 1, before |-> routes]
    /\ nreg' = nreg + 1
    /\ UNCHANGED <<rpanic, routed>>
    /\ UNCHANGED notRouterVars

Route ==
    /\ ~rpanic
    /\ ~routed.set
    /\ nreg < MaxRoutes
    /\ \E path \in Prefixes : \E method \in Methods :
          LET r == route(routes, path, method, nreg + 1) IN
          /\ routes' = r.routes
          /\ rpanic' = r.panic
          /\ registered' = [set |-> TRUE, call |-> "route", path |-> path,
                            method |-> method, handler |-> nreg + 1, before |-> routes]
    /\ nreg' = nreg + 1
    /\ UNCHANGED routed
    /\ UNCHANGED notRouterVars

RouterServe ==
    /\ ~rpanic
    /\ \E method \in Methods : \E target \in RouterTargets :
          LET n == normalize_path(target) IN
          /\ n.kind = "Ok"
          /\ LET d == Router_serve_inner(routes, method, n.path) IN
             \E order \in ErrorPageOrders(B_ContentType, B_ContentLength) :
                routed' = [set |-> TRUE, method |-> method,
                           target |-> target, uri |-> n.path, decision |-> d,
                           response |-> Router_response(d, order)]
    /\ UNCHANGED <<routes, nreg, rpanic, registered>>
    /\ UNCHANGED notRouterVars

NextRouter ==
    \/ RouteAny
    \/ Route
    \/ RouterServe

SpecRouter == InitRouter /\ [][NextRouter]_vars

\* the routes whose prefix is a component-wise prefix of the request path
Matching(rs, uri) ==
    { i \in 1..Len(rs) :
        LET b == Components(rs[i].path)
            c == Components(uri)
        IN  Len(b) <= Len(c) /\ \A k \in 1..Len(b) : c[k] = b[k] }

MinOf(S) == CHOOSE x \in S : \A y \in S : x <= y

\* the status line of an error page as it appears on the wire
StatusLine(code, reason) == B_HTTP11 \o Dec(code) \o <<32>> \o reason \o CRLF

\* C4: Router::serve delegates to the first route, in registration order,
\* whose prefix is a component-wise path prefix of the request path, never
\* to a later one, and serves the 404 page exactly when no prefix matches.
C4_FirstMatch ==
    routed.set =>
        LET M == Matching(routes, routed.uri)
            d == routed.decision
        IN  /\ (d.what = "error_404") <=> (M = {})
            /\ M = {} => /\ StartsWith(routed.response.wire,
                                       StatusLine(404, REASON_404))
                         /\ EndsWith(routed.response.wire, ERROR_404)
            /\ M # {} =>
                 /\ d.route = MinOf(M)
                 /\ LET h == routes[MinOf(M)].handlers IN
                    /\ h.kind = "Any" => (d.what = "handler" /\ d.handler = h.handler)
                    /\ h.kind = "Specific" =>
                         \/ (d.what = "handler" /\ routed.method \in DOMAIN h.map
                               /\ d.handler = h.map[routed.method])
                         \/ (d.what = "error_405" /\ routed.method \notin DOMAIN h.map)

\* C4 witness: two routes match the request and the first one got it
C4_Witness ==
    /\ routed.set
    /\ Cardinality(Matching(routes, routed.uri)) >= 2
    /\ routed.decision.what = "handler"
    /\ routed.decision.route = 1
    /\ 2 \in Matching(routes, routed.uri)

\* the routes of the example: [("/static", GET -> A), ("/", Any -> B)]
C5_ExampleRoutes ==
    << [path |-> P_SlashStatic,
        handlers |-> DispatchSpecific(MapInsert(<<>>, B_GET, 1))],
       [path |-> P_Slash, handlers |-> DispatchAny(2)] >>

\* C5: if the first prefix-matching route is a Specific entry without a
\* handler for the request's method, the router serves the 405 page, invokes
\* no handler and does not fall through; with routes
\* [("/static", GET -> A), ("/", Any -> B)] the request POST /static/x
\* yields 405.
C5_MethodNotAllowed ==
    routed.set =>
        /\ LET M == Matching(routes, routed.uri) IN
           (M # {} /\ routes[MinOf(M)].handlers.kind = "Specific"
              /\ routed.method \notin DOMAIN routes[MinOf(M)].handlers.map)
           => /\ routed.decision.what = "error_405"
              /\ routed.decision.handler = 0
              /\ StartsWith(routed.response.wire, StatusLine(405, REASON_405))
        /\ (routes = C5_ExampleRoutes /\ routed.method = B_POST
              /\ routed.target = T_StaticX)
           => routed.decision.what = "error_405"

\* the routes of rs that have the prefix `path`, as paths compare
SamePrefix(rs, path) == { i \in 1..Len(rs) : Path_eq(rs[i].path, path) }

RoutePanicked ==
    /\ registered.set
    /\ registered.call = "route"
    /\ rpanic

\* a Specific route and, after it, an Any route with the same prefix
SpecificThenAny ==
    /\ Len(routes) = 2
    /\ Path_eq(routes[1].path, routes[2].path)
    /\ routes[1].handlers.kind = "Specific"
    /\ routes[2].handlers.kind = "Any"

(***************************************************************************)
(* SpecDriver: handler threads calling Handler::serve on one Connection.   *)
(* A thread's position in serve_inner is its pc:                           *)
(*   idle -> loaded -> stored -> locked -> stdin -> headers -> body        *)
(* and then done (serve_inner returned) or dead (the thread panicked).     *)
(* The upstream is the environment: it answers a request with one of a     *)
(* few replies, delivered piece by piece while the request waits for it,   *)
(* and it may close the connection when it has nothing left to send.  The  *)
(* threads being alike, thread 2 only enters serve once thread 1 has.      *)
(***************************************************************************)
MaxRequests == 2

Req(uri, segs, end) ==
    [method |-> B_GET, uri |-> uri,
     headers |-> Headers_insert(Headers_new, B_Host, B_h),
     remote_addr |-> B_Localhost, local_port |-> 8080,
     segs |-> segs, end |-> end]

\* a request whose body does not fit the driver's client buffer
BigRequest == Req(U_Page, <<Fill(CLIENT_BUFFER + 1, 120)>>, "eof")

\* the requests a run may serve; to keep the state space small only the
\* first request of a run (by = 1) has a body
DriverRequests(by) ==
    { Req(U_Page, <<>>, "eof"), Req(<<>>, <<>>, "eof") }
    \cup
    ( IF by = 1
      THEN { Req(U_Page, <<B_Hello>>, "wouldblock"), Req(U_Page, <<B_Hi>>, "reset"),
             BigRequest }
      ELSE {} )


\* the length of the first piece of a record delivered in two pieces
SHORT_READ == 8

\* a record as the upstream frames it
UpRecord(kind, id, content) ==
    LET h == write_header(kind, id, Len(content)) IN
    h.bytes \o content \o Fill(h.padding, 0)

\* the replies the upstream may give to a request, i being the request's
\* id: each is a sequence of deliveries, a delivery being one record or, in
\* the reply "pieces", a part of one
AllReplyScripts(i) ==
    LET r_plain   == UpRecord(STDOUT, i, CGI_Plain)
        r_status  == UpRecord(STDOUT, i, CGI_Status)
        r_part1   == UpRecord(STDOUT, i, CGI_StatusPart1)
        r_part2   == UpRecord(STDOUT, i, CGI_StatusPart2)
        r_nostatus == UpRecord(STDOUT, i, CGI_NoStatus)
        r_hello   == UpRecord(STDOUT, i, B_Hello)
        r_stderr  == UpRecord(STDERR, i, B_oops)
        r_end     == UpRecord(END_REQUEST, i, be32(0) \o <<REQUEST_COMPLETE, 0, 0, 0>>)
        r_wrongid == UpRecord(STDOUT, i + 1, B_Hello)
        r_values  == UpRecord(GET_VALUES_RESULT, 0, <<>>)
    IN  { [name |-> "plain",    records |-> <<r_plain, r_end>>],
          [name |-> "status",   records |-> <<r_status, r_end>>],
          [name |-> "body",     records |-> <<r_status, r_hello, r_end>>],
          [name |-> "split",    records |-> <<r_part1, r_part2, r_end>>],
          [name |-> "stderr",   records |-> <<r_stderr, r_status, r_stderr, r_end>>],
          [name |-> "wrongid",  records |-> <<r_wrongid, r_end>>],
          [name |-> "latewrongid", records |-> <<r_status, r_wrongid, r_end>>],
          [name |-> "values",   records |-> <<r_values>>],
          [name |-> "endonly",  records |-> <<r_end>>],
          [name |-> "pieces",   records |-> <<SubSeq(r_status, 1, SHORT_READ),
                                                  DropBytes(r_status, SHORT_READ),
                                                  r_end>>],
          [name |-> "nostatus", records |-> <<r_nostatus, r_end>>],
          [name |-> "silent",   records |-> <<>>] }

\* the full choice of replies goes to a request without a body that is the
\* first of its run; the others get a well-formed reply or none
ReplyScripts(i, by, body) ==
    { sc \in AllReplyScripts(i) :
        \/ by = 1 /\ body = <<>>
        \/ sc.name \in {"status", "wrongid", "silent"} }

InitDriver ==
    /\ request_id = 0
    /\ conn = [holder |-> 0, poisoned |-> FALSE]
    /\ th = [t \in Threads |-> IdleThread]
    /\ nserved = 0
    /\ upOut = <<>>
    /\ upIn = <<>>
    /\ upClosed = FALSE
    /\ upScript = <<>>
    /\ ioUnlocked = FALSE
    /\ aborts = {}
    /\ RespIdle
    /\ FunctionsIdle
    /\ RouterIdle
    /\ ServeIdle

\* a mutex that never makes a thread wait
CanLock_always(m) == TRUE

\* Mutex::lock can take the mutex
CanLock(m) == m.holder = 0

\* a mutex that forgets that a thread panicked while holding it
is_poisoned_never(m) == FALSE

\* Mutex::lock returns Err(PoisonError): a thread panicked while holding it
is_poisoned(m) == m.poisoned

\* a write on the upstream socket succeeds until the upstream has closed
WriteOk(closed) == IF closed THEN {FALSE} ELSE {TRUE}

Logged(by, recs) == [k \in 1..Len(recs) |-> [by |-> by, bytes |-> recs[k]]]

\* serve_inner is left by return: its locals are dropped, the response
\* among them
Finish(s, result, err) ==
    [IdleThread EXCEPT !.pc = "done", !.by = s.by, !.num = s.num,
                       !.req = [uri |-> s.req.uri], !.body0 = s.body0,
                       !.nreads = s.nreads, !.started = s.started,
                       !.script = s.script, !.stalled = s.stalled, !.taken = s.taken,
                       !.res = drop(s.res, CHUNK_CALLS, TRUE),
                       !.result = result, !.err = err]

\* serve_inner is left by a panic: the same drops, while unwinding
Die(s) == [Finish(s, "Panic", "none") EXCEPT !.pc = "dead"]

InFlightPcs == {"locked", "stdin", "headers", "body"}

\* no thread is between the end of serve_inner and the return of serve.
\* That last step touches nothing shared, so it commutes with every step of
\* the other threads; the other threads wait for it, which leaves out only
\* interleavings that differ in when it is taken.
Settled == \A u \in Threads : th[u].pc \notin {"done", "dead"}

\* driver.rs 49: the load of the request counter
BeginServe(t) ==
    /\ th[t].pc = "idle"
    /\ Settled
    /\ nserved < MaxRequests
    /\ \A u \in Threads : u < t => th[u].pc # "idle"
    /\ th' = [th EXCEPT ![t] =
                 [IdleThread EXCEPT !.pc = "loaded", !.by = nserved + 1,
                                    !.num = request_number_of(request_id),
                                    !.res = Response_new]]
    /\ nserved' = nserved + 1
    /\ UNCHANGED <<request_id, conn, upOut, upIn, upClosed, upScript, ioUnlocked, aborts>>
    /\ UNCHANGED notDriverVars

\* driver.rs 50-51: the store of the request counter
StoreId(t) ==
    /\ th[t].pc = "loaded"
    /\ Settled
    /\ request_id' = stored_counter(th[t].num)
    /\ th' = [th EXCEPT ![t].pc = "stored"]
    /\ UNCHANGED <<conn, nserved, upOut, upIn, upClosed, upScript, ioUnlocked, aborts>>
    /\ UNCHANGED notDriverVars

\* driver.rs 53-54: the mutex is taken.  Nothing reads the request before
\* this point, so what the request is is settled here.
Lock(t) ==
    /\ th[t].pc = "stored"
    /\ Settled
    /\ ~is_poisoned(conn)
    /\ CanLock(conn)
    /\ conn' = [conn EXCEPT !.holder = t]
    /\ \E rq \in DriverRequests(th[t].by) :
          th' = [th EXCEPT ![t].pc = "locked", ![t].req = rq,
                           ![t].body0 = Flatten(rq.segs)]
    /\ UNCHANGED <<request_id, nserved, upOut, upIn, upClosed, upScript, ioUnlocked, aborts>>
    /\ UNCHANGED notDriverVars

\* driver.rs 55: the mutex is poisoned
LockPoisoned(t) ==
    /\ th[t].pc = "stored"
    /\ Settled
    /\ is_poisoned(conn)
    /\ conn.holder = 0
    /\ th' = [th EXCEPT ![t] = Finish(@, "Err", "Poison")]
    /\ UNCHANGED <<request_id, conn, nserved, upOut, upIn, upClosed, upScript, ioUnlocked, aborts>>
    /\ UNCHANGED notDriverVars

\* driver.rs 58: initialize_request; its BufWriter reaches the socket when
\* it is dropped, and the result of that flush is ignored
InitializeRequest(t) ==
    /\ th[t].pc = "locked"
    /\ Settled
    /\ LET s == th[t] IN
       \E order \in HeaderOrders(s.req.headers) :
       \E flushed \in WriteOk(upClosed) :
          LET r == initialize_request(WEBROOT, s.num, s.req, order) IN
          IF r.panic
          THEN /\ th' = [th EXCEPT ![t] = Die(s)]
               /\ conn' = [holder |-> 0, poisoned |-> TRUE]
               /\ UNCHANGED <<upOut, ioUnlocked, aborts>>
          ELSE /\ upOut' = IF flushed THEN upOut \o Logged(s.by, r.records) ELSE upOut
               /\ ioUnlocked' = (ioUnlocked \/ conn.holder # t)
               /\ IF r.ok
                  THEN /\ th' = [th EXCEPT ![t].pc = "stdin"]
                       /\ UNCHANGED <<conn, aborts>>
                  ELSE /\ th' = [th EXCEPT ![t] = Finish(s, "Err", "Serialization")]
                       /\ conn' = [conn EXCEPT !.holder = 0]
                       /\ aborts' = aborts \cup {s.by}
    /\ UNCHANGED <<request_id, nserved, upIn, upClosed, upScript>>
    /\ UNCHANGED notDriverVars

\* driver.rs 61-79: one read of the client's body and the STDIN record it
\* becomes, or the end of the body
StdinStep(t) ==
    /\ th[t].pc = "stdin"
    /\ Settled
    /\ LET s == th[t]
           segs == s.req.segs
           more == segs # <<>>
           n == IF ~more THEN 0
                ELSE IF Len(Head(segs)) > CLIENT_BUFFER THEN CLIENT_BUFFER
                ELSE Len(Head(segs))
           data == IF more THEN SubSeq(Head(segs), 1, n) ELSE <<>>
           left == IF ~more THEN <<>>
                   ELSE IF n = Len(Head(segs)) THEN Tail(segs)
                   ELSE <<DropBytes(Head(segs), n)>> \o Tail(segs)
       IN
       IF ~more /\ s.req.end = "reset"
       THEN /\ th' = [th EXCEPT ![t] = Finish(s, "Err", "Io")]
            /\ conn' = [conn EXCEPT !.holder = 0]
            /\ aborts' = aborts \cup {s.by}
            /\ UNCHANGED <<upOut, ioUnlocked, upScript>>
       ELSE \E ok \in WriteOk(upClosed) :
            LET w == stdin(s.num, data) IN
            IF ok /\ w.ok
            THEN /\ upOut' = upOut \o Logged(s.by, <<w.bytes>>)
                 /\ ioUnlocked' = (ioUnlocked \/ conn.holder # t)
                 /\ IF more
                    THEN /\ th' = [th EXCEPT ![t].req.segs = left]
                         /\ UNCHANGED upScript
                    ELSE \E sc \in ReplyScripts(s.num, s.by, s.body0) :
                         /\ th' = [th EXCEPT ![t].pc = "headers",
                                             ![t].script = sc.name]
                         /\ upScript' = IF upClosed THEN upScript
                                        ELSE upScript \o sc.records
                 /\ UNCHANGED <<conn, aborts>>
            ELSE /\ th' = [th EXCEPT ![t] = Finish(s, "Err", "Io")]
                 /\ conn' = [conn EXCEPT !.holder = 0]
                 /\ aborts' = aborts \cup {s.by}
                 /\ UNCHANGED <<upOut, ioUnlocked, upScript>>
    /\ UNCHANGED <<request_id, nserved, upIn, upClosed>>
    /\ UNCHANGED notDriverVars

\* how an iteration of either read loop leaves the thread and the mutex
AfterIteration(t, it) ==
    /\ th' = [th EXCEPT ![t] =
                 CASE it.how = "panic" -> Die(it.s)
                   [] it.how = "err" -> Finish(it.s, "Err", "FastCgiProtocolViolation")
                   [] it.how = "ok" -> Finish(it.s, "Ok", "none")
                   [] OTHER -> it.s]
    /\ conn' = CASE it.how = "panic" -> [holder |-> 0, poisoned |-> TRUE]
                 [] it.how \in {"err", "ok"} -> [conn EXCEPT !.holder = 0]
                 [] OTHER -> conn
    /\ aborts' = IF it.how = "err" THEN aborts \cup {it.s.by} ELSE aborts

\* driver.rs 88-168: one iteration of the header loop and, when it finds
\* the headers complete, res.start() and the residual bytes
HeaderStep(t) ==
    /\ th[t].pc = "headers"
    /\ Settled
    /\ \E f \in fill_buf(th[t].rbuf, upIn, upClosed) :
          LET s == [th[t] EXCEPT !.nreads = IF f.read THEN @ + 1 ELSE @]
              it == header_iteration(s, f.buf)
          IN  /\ upIn' = f.incoming
              /\ ioUnlocked' = (ioUnlocked \/ (f.read /\ conn.holder # t))
              /\ IF it.how = "finished"
                 THEN \E order \in HeaderOrders(
                          Headers_insert(it.s.res.headers, B_TransferEncoding, B_Chunked)) :
                         AfterIteration(t, [how |-> "continue",
                                            s |-> start_streaming(it.s, order)])
                 ELSE AfterIteration(t, it)
    /\ UNCHANGED <<request_id, nserved, upOut, upClosed, upScript>>
    /\ UNCHANGED notDriverVars

\* driver.rs 169-225: one iteration of the body loop
BodyStep(t) ==
    /\ th[t].pc = "body"
    /\ Settled
    /\ \E f \in fill_buf(th[t].rbuf, upIn, upClosed) :
          LET s == [th[t] EXCEPT !.nreads = IF f.read THEN @ + 1 ELSE @] IN
          /\ upIn' = f.incoming
          /\ ioUnlocked' = (ioUnlocked \/ (f.read /\ conn.holder # t))
          /\ AfterIteration(t, body_iteration(s, f.buf))
    /\ UNCHANGED <<request_id, nserved, upOut, upClosed, upScript>>
    /\ UNCHANGED notDriverVars

\* driver.rs 284-290: Handler::serve logs the error, if any, and returns;
\* a thread that panicked is gone for good
Return(t) ==
    /\ th[t].pc \in {"done", "dead"}
    /\ th' = [th EXCEPT ![t] =
                 [IdleThread EXCEPT !.pc = IF th[t].pc = "done" THEN "idle" ELSE "gone"]]
    /\ UNCHANGED <<request_id, conn, nserved, upOut, upIn, upClosed, upScript, ioUnlocked, aborts>>
    /\ UNCHANGED notDriverVars

\* the upstream sends a record
UpstreamSends ==
    /\ Settled
    /\ ~upClosed
    /\ upScript # <<>>
    /\ \E t \in Threads : th[t].pc \in {"headers", "body"}
    /\ upIn' = upIn \o Head(upScript)
    /\ upScript' = Tail(upScript)
    /\ UNCHANGED <<request_id, conn, th, nserved, upOut, upClosed, ioUnlocked, aborts>>
    /\ UNCHANGED notDriverVars

\* the upstream closes the connection, having sent what it meant to send
UpstreamCloses ==
    /\ Settled
    /\ ~upClosed
    /\ upScript = <<>>
    /\ \E t \in Threads : th[t].pc \in InFlightPcs
    /\ upClosed' = TRUE
    /\ upScript' = <<>>
    /\ UNCHANGED <<request_id, conn, th, nserved, upOut, upIn, ioUnlocked, aborts>>
    /\ UNCHANGED notDriverVars

NextDriver ==
    \/ \E t \in Threads : BeginServe(t)
    \/ \E t \in Threads : StoreId(t)
    \/ \E t \in Threads : Lock(t)
    \/ \E t \in Threads : LockPoisoned(t)
    \/ \E t \in Threads : InitializeRequest(t)
    \/ \E t \in Threads : StdinStep(t)
    \/ \E t \in Threads : HeaderStep(t)
    \/ \E t \in Threads : BodyStep(t)
    \/ \E t \in Threads : Return(t)
    \/ UpstreamSends
    \/ UpstreamCloses

SpecDriver == InitDriver /\ [][NextDriver]_vars

(***************************************************************************)
(* Properties of the FastCGI driver.                                       *)
(***************************************************************************)

\* the records request b has written to the upstream, as the FastCGI
\* record parser reads them
WrittenBy(b) ==
    LET Mine(e) == e.by = b
        mine == SelectSeq(upOut, Mine)
    IN  [k \in 1..Len(mine) |-> record(mine[k].bytes)]

\* the contents of the STDIN records among rs, in order
RECURSIVE StdinData(_)
StdinData(rs) ==
    IF rs = <<>> THEN <<>>
    ELSE (IF Head(rs).val.content.kind = "Stdin" THEN Head(rs).val.content.data ELSE <<>>)
         \o StdinData(Tail(rs))

\* the threads that are serving a request or have just ended one
Serving == { t \in Threads : th[t].pc \in InFlightPcs \cup {"done", "dead"} }

\* C3: at most one request is in flight on the upstream socket: a thread
\* between taking the mutex and leaving serve_inner holds the mutex, no
\* other thread is there with it, no upstream read or write is made by a
\* thread that does not hold the mutex, and the records of two requests
\* never interleave on the socket.
C3_OneRequestInFlight ==
    /\ \A t, u \in Threads :
          th[t].pc \in InFlightPcs /\ th[u].pc \in InFlightPcs => t = u
    /\ \A t \in Threads : th[t].pc \in InFlightPcs => conn.holder = t
    /\ ~ioUnlocked
    /\ \A i, j, k \in DOMAIN upOut :
          i < j /\ j < k /\ upOut[i].by = upOut[k].by => upOut[j].by = upOut[i].by

\* two requests have written to the socket, the second from a thread that
\* entered serve while the first request's thread was busy
C3_Witness ==
    /\ th[2].pc \in InFlightPcs
    /\ \E i, j \in DOMAIN upOut : upOut[i].by = 1 /\ upOut[j].by = 2

\* C6: what a request has written upstream is, record by record and all
\* with the request's id, a prefix of: one BeginRequest (Responder,
\* KEEP_CONN), a non-empty PARAMS, an empty PARAMS, non-empty STDIN records
\* of at most 4096 bytes carrying the body in order, one empty STDIN; and
\* the request has read nothing from the upstream before the empty STDIN
\* is written.
C6_RequestRecordOrder ==
    \A t \in Serving :
       LET rs == WrittenBy(th[t].by)
           n == Len(rs)
           closed == n >= 4 /\ rs[n].val.content.data = <<>>
       IN  /\ \A k \in 1..n :
                 /\ rs[k].kind = "Done"
                 /\ rs[k].rest = <<>>
                 /\ rs[k].val.id = th[t].num
           /\ n >= 1 => /\ rs[1].val.content.kind = "BeginRequest"
                        /\ rs[1].val.content.role = ROLE_RESPONDER
                        /\ rs[1].val.content.flags = KEEP_CONN
           /\ n >= 2 => /\ rs[2].val.content.kind = "Params"
                        /\ rs[2].val.content.pairs # <<>>
           /\ n >= 3 => /\ rs[3].val.content.kind = "Params"
                        /\ rs[3].val.content.pairs = <<>>
           /\ \A k \in 4..n :
                 /\ rs[k].val.content.kind = "Stdin"
                 /\ Len(rs[k].val.content.data) <= 4096
                 /\ rs[k].val.content.data = <<>> => k = n
           /\ StartsWith(th[t].body0, StdinData(rs))
           /\ closed => StdinData(rs) = th[t].body0
           /\ th[t].nreads > 0 => closed

\* a request whose body took two STDIN records has written its empty STDIN
\* and has read from the upstream
C6_Witness ==
    \E t \in Serving :
       LET rs == WrittenBy(th[t].by) IN
       /\ Len(rs) = 6
       /\ Len(rs[4].val.content.data) = 4096
       /\ Len(rs[5].val.content.data) = 1
       /\ rs[6].val.content.data = <<>>
       /\ th[t].nreads > 0

\* the response the client is to receive for the CGI document
\* "Content-Type: text/plain", blank line, "Hello"
PlainResponses ==
    LET ct == B_ContentType \o B_ColonSp \o B_text_plain \o CRLF
        te == B_TransferEncoding \o B_ColonSp \o B_Chunked \o CRLF
        tl == CRLF \o <<53>> \o CRLF \o B_Hello \o CRLF \o B_LastChunk
    IN  { StatusLine(200, B_Ok) \o ct \o te \o tl,
          StatusLine(200, B_Ok) \o te \o ct \o tl }

\* C7: a request for "page" whose upstream replied with the Stdout content
\* "Content-Type: text/plain\r\n\r\nHello" and an EndRequest has, when
\* serve_inner is over, sent the client the chunked 200 response.
C7_ChunkedProxy ==
    \A t \in Threads :
       ( /\ th[t].pc \in {"done", "dead"}
         /\ th[t].script = "plain"
         /\ th[t].req.uri = U_Page
         /\ ~upClosed )
       => th[t].res.wire \in PlainResponses

\* C8: a request ended by FastCgiProtocolViolation has sent the client a
\* 500 response if its response was not started, and the closing chunk of
\* its stream if it was.
C8_UpstreamErrorAnswered ==
    \A t \in Threads :
       ( th[t].pc = "done" /\ th[t].err = "FastCgiProtocolViolation" )
       => IF th[t].started
          THEN EndsWith(th[t].res.wire, B_LastChunk)
          ELSE StartsWith(th[t].res.wire, B_HTTP11 \o Dec(500))

\* C9: once serve_inner has aborted a request with an error, no request is
\* in flight on the upstream socket again.
C9_AbortDropsConnection ==
    \A t \in Threads : th[t].pc \in InFlightPcs => aborts = {}

(***************************************************************************)
(* SpecServe: the accept loop of serve() (src/server/mod.rs), one thread.  *)
(* An action is one turn of the loop on one connection.  What the client   *)
(* sends is what httparse makes of it (a complete request head with its    *)
(* method and target, a malformed one, or one cut short) and the FastCGI   *)
(* responder answers a request with one of the replies of SpecDriver, all  *)
(* of it there when the driver first reads, and then closes.               *)
(***************************************************************************)
MaxConns == 3

\* the handlers serve() registers
STATICS == 1
FCGI == 2

\* router.route(public_prefix, "GET", Statics); router.route_any("/", fcgi_conn)
ProductionRoutes ==
    route_any(route(Router_new, P_SlashHtml, B_GET, STATICS).routes, P_Slash, FCGI)

ClientTargets ==
    { T_X, T_HtmlX, T_Page, T_Pct1, T_Pct0, T_PctBad, T_PctOk, T_NoSlash,
      T_EncPage, T_EncHtmlX }

ClientInputs ==
    { [parse |-> "complete", method |-> m, target |-> t] :
          m \in {B_GET, B_POST}, t \in ClientTargets }
    \cup { [parse |-> "malformed", method |-> <<>>, target |-> <<>>],
           [parse |-> "incomplete", method |-> <<>>, target |-> <<>>] }

PairOk(method, path) == [kind |-> "Ok", err |-> "none", method |-> method, path |-> path]
PairErr(e) == [kind |-> "Err", err |-> e, method |-> <<>>, path |-> <<>>]
PairPanic == [kind |-> "Panic", err |-> "none", method |-> <<>>, path |-> <<>>]

\* InnerRequest::parse: parse_inner, then normalize_path on the target
InnerRequest_parse(c) ==
    IF c.parse = "malformed" THEN PairErr("Parse")
    ELSE IF c.parse = "incomplete" THEN PairErr("RequestIncomplete")
    ELSE LET p == normalize_path(c.target) IN
         IF p.kind = "Panic" THEN PairPanic
         ELSE IF p.kind = "Err" THEN PairErr(p.err)
         ELSE PairOk(c.method, p.path)

\* make_request_pair; addrOk: peer_addr, local_addr and try_clone succeed
make_request_pair(c, addrOk) ==
    IF ~addrOk THEN PairErr("Io") ELSE InnerRequest_parse(c)

\* the header loop and the body loop of serve_inner, run to their end on
\* what the upstream socket holds
RECURSIVE body_loop(_, _)
body_next(it, incoming) ==
    IF it.how = "continue" THEN body_loop(it.s, incoming) ELSE it

body_read(s, f) == body_next(body_iteration(s, f.buf), f.incoming)

body_loop(s, incoming) ==
    body_read(s, CHOOSE f \in fill_buf(s.rbuf, incoming, TRUE) : TRUE)

RECURSIVE header_loop(_, _)
header_next(it, incoming) ==
    IF it.how = "continue" THEN header_loop(it.s, incoming)
    ELSE IF it.how = "finished"
    THEN body_loop(
             start_streaming(it.s,
                 CHOOSE order \in HeaderOrders(
                     Headers_insert(it.s.res.headers, B_TransferEncoding, B_Chunked)) :
                     TRUE),
             incoming)
    ELSE it

header_read(s, f) == header_next(header_iteration(s, f.buf), f.incoming)

header_loop(s, incoming) ==
    header_read(s, CHOOSE f \in fill_buf(s.rbuf, incoming, TRUE) : TRUE)

\* Connection::serve_inner for a request without a body, on a healthy
\* upstream socket: how it ends ("ok", "err" or "panic")
serve_inner(id, path, reply) ==
    LET request_number == id + 1
        req == Req(path, <<>>, "eof")
        init == initialize_request(WEBROOT, request_number, req, <<B_Host>>)
    IN  IF init.panic THEN "panic"
        ELSE IF ~init.ok THEN "err"
        ELSE header_loop([IdleThread EXCEPT !.pc = "headers", !.by = 1,
                                            !.num = request_number,
                                            !.res = Response_new],
                         reply).how

InitServe ==
    /\ ServeIdle
    /\ RespIdle
    /\ FunctionsIdle
    /\ RouterIdle
    /\ DriverIdle

Seen(c, how, decision) ==
    [set |-> TRUE, input |-> c, how |-> how, decision |-> decision]

NoInput == [parse |-> "none", method |-> <<>>, target |-> <<>>]

\* mod.rs 75-77: listener.incoming() yields an error; it is logged
AcceptFails ==
    /\ srv = "accepting"
    /\ nconn < MaxConns
    /\ nconn' = nconn + 1
    /\ lastc' = Seen(NoInput, "accept failed", "none")
    /\ UNCHANGED srv
    /\ UNCHANGED notServeVars

\* mod.rs 63-66: set_read_timeout, set_write_timeout or try_clone fails and
\* try! returns from serve()
ConfigureFails ==
    /\ srv = "accepting"
    /\ nconn < MaxConns
    /\ nconn' = nconn + 1
    /\ srv' = "returned"
    /\ lastc' = Seen(NoInput, "configure failed", "none")
    /\ UNCHANGED notServeVars

\* mod.rs 66-72: make_request_pair fails or panics: a malformed request is
\* answered with the 400 page, the other errors are logged
RequestPairFails ==
    /\ srv = "accepting"
    /\ nconn < MaxConns
    /\ \E c \in ClientInputs : \E addrOk \in BOOLEAN :
          LET p == make_request_pair(c, addrOk) IN
          /\ p.kind # "Ok"
          /\ srv' = IF p.kind = "Panic" THEN "panicked" ELSE "accepting"
          /\ lastc' = Seen(c, IF p.kind = "Panic" THEN "panic" ELSE p.err,
                           IF p.err = "Parse" THEN "error_400" ELSE "none")
    /\ nconn' = nconn + 1
    /\ UNCHANGED notServeVars

\* mod.rs 66-67: router.serve(req, res); the static files handler always
\* returns, the FastCGI driver returns or panics
RouterServes ==
    /\ srv = "accepting"
    /\ nconn < MaxConns
    /\ \E c \in ClientInputs :
          LET p == make_request_pair(c, TRUE)
              d == Router_serve_inner(ProductionRoutes, p.method, p.path)
          IN  /\ p.kind = "Ok"
              /\ IF d.what = "handler" /\ d.handler = FCGI
                 THEN \E sc \in AllReplyScripts(request_id + 1) :
                         LET how == serve_inner(request_id, p.path, Flatten(sc.records)) IN
                         /\ srv' = IF how = "panic" THEN "panicked" ELSE "accepting"
                         /\ lastc' = Seen(c, how, sc.name)
                         /\ request_id' = (request_id + 1) % 256
                 ELSE /\ UNCHANGED <<srv, request_id>>
                      /\ lastc' = Seen(c, "ok", IF d.what = "handler" THEN "statics" ELSE d.what)
    /\ nconn' = nconn + 1
    /\ UNCHANGED <<conn, th, nserved, upOut, upIn, upClosed, upScript, ioUnlocked, aborts>>
    /\ UNCHANGED <<respVars, routerVars, functionVars>>

NextServe ==
    \/ AcceptFails
    \/ ConfigureFails
    \/ RequestPairFails
    \/ RouterServes

SpecServe == InitServe /\ [][NextServe]_vars

\* C10: no request makes serve() return or its thread panic: whatever the
\* connections brought, the accept loop is still accepting.
C10_AcceptLoopGoesOn == srv = "accepting"

\* C11: a request whose target is not in origin form or carries an illegal
\* percent-encoding is answered with the 400 page, exactly as a request
\* whose head fails to parse is.
C11_BadTargetAnswered400 ==
    (lastc.set /\ lastc.how \in {"Parse", "PathNotInOriginForm", "IllegalPercentEncoding"})
        => lastc.decision = "error_400"


(***************************************************************************)
(* SpecCodec: the FastCGI serializer and parser (src/fastcgi) on one byte  *)
(* stream.  One serializer call writes its records to the stream, or a     *)
(* peer that follows the FastCGI specification sends one frame; record()   *)
(* is then called on what is unread until it fails or nothing is left.     *)
(***************************************************************************)
\* names and values by their length: 0, 1, 127 and 128 (the two sides of
\* the one-byte limit) and 200
B_a == <<97>>
Long127 == Fill(127, 110)
Long128 == Fill(128, 110)
Long200 == Fill(200, 118)

CodecNames == {<<>>, B_a, Long127, Long128}
CodecValues == {<<>>, B_Hi, Long127, Long200}
CodecIds == {0, 1, 258, 65535}

\* the parameter lists given to params, the name lists given to get_values
\* the values with which the pair ("a", value) is encoded in 65,535 bytes,
\* the most a record holds, and in one byte more
FullValue == Fill(U16_MAX - 6, 118)
OverfullValue == Fill(U16_MAX - 5, 118)

CodecPairLists ==
    {<<>>} \cup { << <<n, v>> >> : n \in CodecNames, v \in CodecValues }
        \cup { << <<B_a, B_Hi>>, <<n, v>> >> : n \in {B_a, Long128}, v \in {<<>>, Long200} }
        \cup { << <<B_a, FullValue>> >>, << <<B_a, OverfullValue>> >>,
               << <<B_a, FullValue>>, <<B_a, B_Hi>> >> }

CodecNameLists ==
    {<<>>} \cup { <<n>> : n \in CodecNames } \cup { <<B_a, n>> : n \in {B_a, Long128} }

\* the contents given to stdin, by length
CodecContentLengths == {0, 1, 7, 8, 9, 4096, 65535, 65536}

\* the bytes of a content of n bytes
ContentOf(n) == [i \in 1..n |-> i % 256]

\* FastCGI specification, section 3.4: a length up to 127 is one byte, a
\* longer one four bytes, big-endian, with the top bit of the first set
FcgiLength(n) ==
    IF n > 127
    THEN <<128 + ((n \div 16777216) % 128), (n \div 65536) % 256, (n \div 256) % 256, n % 256>>
    ELSE <<n>>

FcgiPair(name, value) == FcgiLength(Len(name)) \o FcgiLength(Len(value)) \o name \o value

RECURSIVE FcgiPairs(_)
FcgiPairs(pairs) ==
    IF pairs = <<>> THEN <<>>
    ELSE FcgiPair(Head(pairs)[1], Head(pairs)[2]) \o FcgiPairs(Tail(pairs))

\* the name-value lists a peer sends
PeerPairLists ==
    { <<>>, << <<B_a, B_Hi>> >>, << <<B_a, B_Hi>>, <<Long127, <<>> >> >>,
      << <<Long128, B_Hi>> >>, << <<B_a, Long200>> >> }

\* the frames a peer sends: every type byte from 0 to 12 and 255, with a
\* content of the type's layout
PeerFrames ==
    { [fn |-> "peer", type |-> BEGIN_REQUEST, id |-> i, pairs |-> <<>>,
       content |-> be16(r) \o <<f>> \o Fill(5, 0)] :
          i \in CodecIds, r \in {1, 3}, f \in {0, KEEP_CONN} }
    \cup { [fn |-> "peer", type |-> ABORT_REQUEST, id |-> i, pairs |-> <<>>,
            content |-> <<>>] : i \in CodecIds }
    \cup { [fn |-> "peer", type |-> END_REQUEST, id |-> i, pairs |-> <<>>,
            content |-> be32(a) \o <<REQUEST_COMPLETE, 0, 0, 0>>] :
               i \in CodecIds, a \in {0, 258} }
    \cup { [fn |-> "peer", type |-> t, id |-> i, pairs |-> <<>>, content |-> c] :
               t \in {STDIN, STDOUT, STDERR, DATA}, i \in {0, 1}, c \in {<<>>, B_Hi} }
    \cup { [fn |-> "peer", type |-> t, id |-> i, pairs |-> p, content |-> FcgiPairs(p)] :
               t \in {PARAMS, GET_VALUES, GET_VALUES_RESULT}, i \in {0, 1},
               p \in PeerPairLists }
    \cup { [fn |-> "peer", type |-> UNKNOWN_TYPE, id |-> 0, pairs |-> <<>>,
            content |-> <<t>> \o Fill(7, 0)] : t \in {0, 12} }
    \cup { [fn |-> "peer", type |-> t, id |-> i, pairs |-> <<>>, content |-> Fill(8, 0)] :
               t \in {0, 12, 255}, i \in {0, 1} }

InitCodec ==
    /\ CodecIdle
    /\ CgiIdle
    /\ PathIdle
    /\ HeadersIdle
    /\ RespIdle
    /\ RouterIdle
    /\ ServeIdle
    /\ DriverIdle
    /\ ParseIdle

\* serializer::start_request(output, id)
CallStartRequest ==
    /\ sent = NoSnapshot
    /\ \E id \in CodecIds :
          /\ sent' = [fn |-> "start_request", id |-> id, ok |-> TRUE]
          /\ wire' = <<start_request(id)>>
          /\ unread' = start_request(id)
    /\ UNCHANGED got
    /\ UNCHANGED notCodecVars

\* serializer::params(output, id, params)
CallParams ==
    /\ sent = NoSnapshot
    /\ \E id \in CodecIds, pairs \in CodecPairLists :
          /\ sent' = [fn |-> "params", id |-> id, pairs |-> pairs,
                      ok |-> params(id, pairs).ok]
          /\ wire' = params(id, pairs).records
          /\ unread' = Flatten(params(id, pairs).records)
    /\ UNCHANGED got
    /\ UNCHANGED notCodecVars

\* serializer::stdin(output, id, content)
CallStdin ==
    /\ sent = NoSnapshot
    /\ \E id \in {1, 65535}, n \in CodecContentLengths :
          /\ sent' = [fn |-> "stdin", id |-> id, content |-> ContentOf(n),
                      ok |-> stdin(id, ContentOf(n)).ok]
          /\ wire' = IF stdin(id, ContentOf(n)).ok
                     THEN <<stdin(id, ContentOf(n)).bytes>> ELSE <<>>
          /\ unread' = stdin(id, ContentOf(n)).bytes
    /\ UNCHANGED got
    /\ UNCHANGED notCodecVars

\* serializer::get_values(output, get_for)
CallGetValues ==
    /\ sent = NoSnapshot
    /\ \E names \in CodecNameLists :
          /\ sent' = [fn |-> "get_values", id |-> 0, names |-> names,
                      ok |-> get_values(names).ok]
          /\ wire' = IF get_values(names).ok THEN <<get_values(names).bytes>>
                     ELSE <<>>
          /\ unread' = get_values(names).bytes
    /\ UNCHANGED got
    /\ UNCHANGED notCodecVars

\* a peer sends one frame
PeerSends ==
    /\ sent = NoSnapshot
    /\ \E f \in PeerFrames :
          /\ sent' = f
          /\ wire' = <<UpRecord(f.type, f.id, f.content)>>
          /\ unread' = UpRecord(f.type, f.id, f.content)
    /\ UNCHANGED got
    /\ UNCHANGED notCodecVars

\* the result of one call of record(), with the number of bytes it consumed
Result(r, input, many0) ==
    [r |-> r, many0 |-> many0,
     consumed |-> IF r.kind = "Done" THEN Len(input) - Len(r.rest) ELSE 0]

\* parser::record(unread); the caller goes on after Done
ParseRecord ==
    /\ unread # <<>>
    /\ got # <<>> => got[Len(got)].r.kind = "Done"
    /\ \E many0 \in Many0Modes :
          /\ got # <<>> => got[1].many0 = many0
          /\ got' = Append(got, Result(record_many0(unread, many0), unread, many0))
          /\ unread' = IF record_many0(unread, many0).kind = "Done"
                       THEN record_many0(unread, many0).rest ELSE unread
    /\ UNCHANGED <<sent, wire>>
    /\ UNCHANGED notCodecVars

NextCodec ==
    \/ CallStartRequest
    \/ CallParams
    \/ CallStdin
    \/ CallGetValues
    \/ PeerSends
    \/ ParseRecord

SpecCodec == InitCodec /\ [][NextCodec]_vars

\* the content bytes a serializer call wrote into its k-th record
ContentWritten(call, k) ==
    CASE call.fn = "start_request" -> be16(ROLE_RESPONDER) \o <<KEEP_CONN>> \o Fill(5, 0)
      [] call.fn = "params" -> IF k = 1 THEN params_content(call.pairs) ELSE <<>>
      [] call.fn = "stdin" -> call.content
      [] call.fn = "get_values" -> get_values_content(call.names)

\* the frame r declares the length of `content`, carries it, and is padded
\* with zero bytes to a multiple of 8
WellFormedFrame(r, content) ==
    /\ Len(r) >= 8
    /\ u16_at(r, 5) = Len(content)
    /\ SubSeq(r, 9, 8 + Len(content)) = content
    /\ r[7] \in 0..7
    /\ (u16_at(r, 5) + r[7]) % 8 = 0
    /\ Len(r) = 8 + u16_at(r, 5) + r[7]
    /\ \A i \in (9 + Len(content))..Len(r) : r[i] = 0
    /\ Len(r) % 8 = 0

BySerializer == sent # NoSnapshot /\ sent.fn # "peer"

\* C13: every record written by start_request, params (the data record and
\* the terminator), stdin and get_values is a well-formed frame: its
\* declared content length is the number of content bytes written, its
\* padding length P is between 0 and 7 with (L + P) % 8 = 0, exactly P zero
\* bytes follow the content, and its total length is a multiple of 8.
C13_FramesWellFormed ==
    BySerializer =>
        /\ sent.ok => Len(wire) = (IF sent.fn = "params" THEN 2 ELSE 1)
        /\ \A k \in DOMAIN wire : WellFormedFrame(wire[k], ContentWritten(sent, k))

\* params has written a pair whose name takes a four-byte length, in a data
\* record that needed padding, and its terminator
C13_Witness ==
    /\ BySerializer
    /\ sent.fn = "params"
    /\ \E i \in DOMAIN sent.pairs : Len(sent.pairs[i][1]) > 127
    /\ Len(wire) = 2
    /\ wire[1][7] > 0

\* name-value pairs as the parser returns them
PairRecords(pairs) ==
    [i \in DOMAIN pairs |-> [name |-> pairs[i][1], value |-> pairs[i][2]]]

NamesOnly(names) == [i \in DOMAIN names |-> [name |-> names[i], value |-> <<>>]]

\* the records a serializer call is to be read back as
ExpectedRecords(call) ==
    CASE call.fn = "start_request" ->
             << [id |-> call.id,
                 content |-> [kind |-> "BeginRequest", role |-> ROLE_RESPONDER,
                              flags |-> KEEP_CONN]] >>
      [] call.fn = "params" ->
             << [id |-> call.id,
                 content |-> [kind |-> "Params", pairs |-> PairRecords(call.pairs)]],
                [id |-> call.id, content |-> [kind |-> "Params", pairs |-> <<>>]] >>
      [] call.fn = "stdin" ->
             << [id |-> call.id, content |-> [kind |-> "Stdin", data |-> call.content]] >>
      [] call.fn = "get_values" ->
             << [id |-> 0,
                 content |-> [kind |-> "GetValues", pairs |-> NamesOnly(call.names)]] >>

\* the k-th call of record() returned the k-th record of the call, having
\* consumed that record's bytes and no more
ReadBack(call, k) ==
    /\ k <= Len(ExpectedRecords(call))
    /\ got[k].r.kind = "Done"
    /\ got[k].r.val = ExpectedRecords(call)[k]
    /\ got[k].consumed = Len(wire[k])

\* C12: round trip: every record the serializer emits (BeginRequest, Params,
\* Stdin, GetValues; content up to 65,535 bytes; names and values longer
\* than 127 bytes included) is returned by record() as it was given to the
\* serializer, record() consuming exactly its 8 + L + P bytes.
C12_RoundTrip ==
    (BySerializer /\ sent.ok) => \A k \in DOMAIN got : ReadBack(sent, k)

\* the same, for calls whose names and values are all at most 127 bytes
ShortPairs(call) ==
    CASE call.fn = "params" ->
             \A i \in DOMAIN call.pairs :
                 Len(call.pairs[i][1]) <= 127 /\ Len(call.pairs[i][2]) <= 127
      [] call.fn = "get_values" -> \A i \in DOMAIN call.names : Len(call.names[i]) <= 127
      [] OTHER -> TRUE

RoundTripOfShortPairs ==
    (BySerializer /\ sent.ok /\ ShortPairs(sent)) => \A k \in DOMAIN got : ReadBack(sent, k)

\* the content a frame carries
ContentOfFrame(r) == SubSeq(r, 9, 8 + u16_at(r, 5))

\* C14: write_name_val_pair writes a length up to 127 as one byte with the
\* top bit clear and a longer one as four big-endian bytes with the top bit
\* of the first set; name_value_pair reads a four-byte length from the
\* start of the length field and takes its low 31 bits.  So the pairs
\* params writes are in the encoding of the protocol, and the pairs a peer
\* sends in that encoding are read back as sent.
C14_LengthEncoding ==
    /\ (BySerializer /\ sent.fn = "params" /\ sent.ok)
           => ContentOfFrame(wire[1]) = FcgiPairs(sent.pairs)
    /\ (sent # NoSnapshot /\ sent.fn = "peer" /\ sent.type \in {PARAMS, GET_VALUES}
            /\ got # <<>>)
           => /\ got[1].r.kind = "Done"
              /\ got[1].r.val.content.pairs = PairRecords(sent.pairs)

\* the half of C14 about the parser alone
PeerPairsReadBack ==
    (sent # NoSnapshot /\ sent.fn = "peer" /\ sent.type \in {PARAMS, GET_VALUES}
        /\ got # <<>>)
       => /\ got[1].r.kind = "Done"
          /\ got[1].r.val.content.pairs = PairRecords(sent.pairs)

\* the Content variant of a type byte
ContentVariant(t) ==
    CASE t = BEGIN_REQUEST -> "BeginRequest"
      [] t = ABORT_REQUEST -> "AbortRequest"
      [] t = END_REQUEST -> "EndRequest"
      [] t = PARAMS -> "Params"
      [] t = STDIN -> "Stdin"
      [] t = STDOUT -> "Stdout"
      [] t = STDERR -> "Stderr"
      [] t = DATA -> "Data"
      [] t = GET_VALUES -> "GetValues"
      [] t = GET_VALUES_RESULT -> "GetValuesResult"
      [] t = UNKNOWN_TYPE -> "UnknownType"

\* a peer's frame whose name-value lengths all fit one byte
PeerFrameOfShortPairs ==
    /\ sent # NoSnapshot
    /\ sent.fn = "peer"
    /\ \A i \in DOMAIN sent.pairs :
          Len(sent.pairs[i][1]) <= 127 /\ Len(sent.pairs[i][2]) <= 127

\* the first call of record() returned what the type byte of the peer's
\* frame calls for
FrameDecoded ==
    IF sent.type \in 1..11
    THEN /\ got[1].r.kind = "Done"
         /\ got[1].r.val.id = sent.id
         /\ got[1].r.val.content.kind = ContentVariant(sent.type)
         /\ got[1].consumed = Len(wire[1])
    ELSE /\ got[1].r.kind = "Error"
         /\ ParseError_from_u32(got[1].r.custom) = UnknownType(sent.type)

\* C15: record() decodes a complete frame of every type byte from 1 to 11
\* into the Content variant of that type (10 is GetValuesResult), with the
\* frame's request id, and for a type byte outside 1..11 returns the
\* UnknownType parse error carrying that byte.  Stated for frames whose
\* name-value lengths fit one byte.
C15_EveryTypeDecoded ==
    (PeerFrameOfShortPairs /\ got # <<>>) => FrameDecoded

\* the same without type 10
EveryTypeButGetValuesResultDecoded ==
    (PeerFrameOfShortPairs /\ got # <<>> /\ sent.type # GET_VALUES_RESULT) => FrameDecoded


(***************************************************************************)
(* SpecCgi: doc_headers (src/cgi/parser.rs) on one CGI document.  The      *)
(* documents are those of the grammar                                      *)
(*     [status_line EOL] content_type EOL (header EOL)* EOL                *)
(* written with one line terminator throughout and any of the three forms  *)
(* of the blank-line terminator, followed by a body.                       *)
(***************************************************************************)
B_NotFound == <<78, 111, 116, 32, 70, 111, 117, 110, 100>>
B_XA == <<88, 45, 65>>
B_b == <<98>>
B_SetCookie == <<83, 101, 116, 45, 67, 111, 111, 107, 105, 101>>
B_cd == <<99, 61, 100>>
\* a body that itself holds a colon and a blank line: "a: b" LF LF "c"
B_BodyLikeHeader == <<97, 58, 32, 98, 10, 10, 99>>

NoStatus == [none |-> TRUE]
SomeStatus(code, reason) ==
    [none |-> FALSE, some |-> [code |-> code, reason_phrase |-> reason]]

CgiStatuses == {NoStatus, SomeStatus(200, B_OK), SomeStatus(404, B_NotFound)}

CgiHeaderLists ==
    { <<>>,
      << [name |-> B_XA, content |-> B_b] >>,
      << [name |-> B_XA, content |-> B_b], [name |-> B_SetCookie, content |-> B_cd] >> }

CgiEols == {CRLF, <<10>>}
CgiTerminators == {CRLF \o CRLF, CRLF \o <<10>>, <<10, 10>>}
CgiBodies == {<<>>, B_Hello, B_BodyLikeHeader}

\* the lines of a document, without their terminators
CgiStatusLine(st) ==
    B_StatusColon \o <<32>> \o Dec(st.some.code) \o <<32>> \o st.some.reason_phrase

CgiHeaderLine(h) == h.name \o <<58, 32>> \o h.content

CgiLines(st, media, hdrs) ==
    (IF st.none THEN <<>> ELSE <<CgiStatusLine(st)>>)
        \o <<B_ContentTypeColon \o <<32>> \o media>>
        \o [i \in DOMAIN hdrs |-> CgiHeaderLine(hdrs[i])]

\* the lines joined by eol, the last one followed by the terminator
RECURSIVE CgiJoin(_, _, _)
CgiJoin(lines, eol, term) ==
    IF Len(lines) = 1 THEN Head(lines) \o term
    ELSE Head(lines) \o eol \o CgiJoin(Tail(lines), eol, term)

CgiDocument(st, media, hdrs, eol, term, body) ==
    [status |-> st, media |-> media, headers |-> hdrs, eol |-> eol, term |-> term,
     body |-> body,
     bytes |-> CgiJoin(CgiLines(st, media, hdrs), eol, term) \o body]

CgiDocuments ==
    { CgiDocument(st, B_text_plain, hdrs, eol, term, body) :
          st \in CgiStatuses, hdrs \in CgiHeaderLists, eol \in CgiEols,
          term \in CgiTerminators, body \in CgiBodies }

InitCgi ==
    /\ document \in CgiDocuments
    /\ parsed = NoSnapshot
    /\ CodecIdle
    /\ PathIdle
    /\ HeadersIdle
    /\ RespIdle
    /\ RouterIdle
    /\ ServeIdle
    /\ DriverIdle
    /\ ParseIdle

\* cgi::parser::doc_headers(document)
ParseDocument ==
    /\ parsed = NoSnapshot
    /\ parsed' = [set |-> TRUE, r |-> doc_headers(document.bytes)]
    /\ UNCHANGED document
    /\ UNCHANGED notCgiVars

NextCgi == ParseDocument

SpecCgi == InitCgi /\ [][NextCgi]_vars

\* doc_headers returned the parts of the document and left its body
DocumentParsed ==
    /\ parsed.r.kind = "Done"
    /\ parsed.r.rest = document.body
    /\ parsed.r.val.status = document.status
    /\ parsed.r.val.content_type = [name |-> B_ContentType, content |-> document.media]
    /\ parsed.r.val.headers = document.headers

\* C16: doc_headers accepts every document [status_line EOL] content_type
\* EOL header* EOL, the one without a Status line (status None) and the
\* one without further headers included, ends the header block at the
\* first blank-line terminator (CR LF CR LF, CR LF LF or LF LF) and
\* returns the bytes after it as the body.
C16_DocumentAccepted == parsed.set => DocumentParsed

\* the same for documents with a Status line and at least one header
DocumentWithStatusAndHeaderAccepted ==
    (parsed.set /\ ~document.status.none /\ document.headers # <<>>) => DocumentParsed


(***************************************************************************)
(* SpecPath: normalize_path (src/filesystem.rs) on one request target.     *)
(* The targets are all the byte strings of up to MaxPathLen bytes over     *)
(* '/', '%', the hex digits '2', 'F' and 'a', and 'z'.                     *)
(***************************************************************************)
MaxPathLen == 5

PathAlphabet == {47, 37, 50, 70, 97, 122}

PathInputs == UNION { [1..n -> PathAlphabet] : n \in 1..MaxPathLen }

InitPath ==
    /\ request_path \in PathInputs
    /\ normalized = NoSnapshot
    /\ CodecIdle
    /\ CgiIdle
    /\ HeadersIdle
    /\ RespIdle
    /\ RouterIdle
    /\ ServeIdle
    /\ DriverIdle
    /\ ParseIdle

\* filesystem::normalize_path(request_path)
NormalizePath ==
    /\ normalized = NoSnapshot
    /\ normalized' = [set |-> TRUE, r |-> normalize_path(request_path)]
    /\ UNCHANGED request_path
    /\ UNCHANGED notPathVars

NextPath == NormalizePath

SpecPath == InitPath /\ [][NextPath]_vars

\* s without its leading '/' bytes
RECURSIVE WithoutLeadingSlashes(_)
WithoutLeadingSlashes(s) ==
    IF s # <<>> /\ Head(s) = 47 THEN WithoutLeadingSlashes(Tail(s)) ELSE s

\* the bytes a well-encoded target stands for: a run of '/' is one '/', a
\* %HH is the byte HH, any other byte is itself
RECURSIVE StandsFor(_)
StandsFor(s) ==
    IF s = <<>> THEN <<>>
    ELSE IF Head(s) = 47 THEN <<47>> \o StandsFor(WithoutLeadingSlashes(s))
    ELSE IF Head(s) = 37
    THEN <<from_hexit(s[2]) * 16 + from_hexit(s[3])>> \o StandsFor(DropBytes(s, 3))
    ELSE <<Head(s)>> \o StandsFor(Tail(s))

NoAdjacentSlashes(s) == \A i \in 1..(Len(s) - 1) : ~(s[i] = 47 /\ s[i + 1] = 47)

Normalized == normalized.set /\ normalized.r.kind = "Ok"

\* C17: when normalize_path succeeds on "/" followed by s, the output does
\* not begin with '/', holds no two adjacent '/', and is the input with
\* each %HH replaced by its one byte and every other byte in its place.
C17_NormalForm ==
    Normalized =>
        /\ normalized.r.path = <<>> \/ normalized.r.path[1] # 47
        /\ NoAdjacentSlashes(normalized.r.path)
        /\ normalized.r.path = StandsFor(WithoutLeadingSlashes(request_path))

\* the last part of C17 alone
DecodedInOrder ==
    Normalized => normalized.r.path = StandsFor(WithoutLeadingSlashes(request_path))

\* a '%' of s that is not followed by two hexadecimal digits
BadPercent(s) ==
    \E i \in 1..Len(s) :
        /\ s[i] = 37
        /\ ~(i + 2 <= Len(s) /\ is_hexit(s[i + 1]) /\ is_hexit(s[i + 2]))

\* C18: normalize_path returns the error PathNotInOriginForm when the first
\* byte is not '/', and the error IllegalPercentEncoding when a '%' is not
\* followed by two hexadecimal digits, a '%' followed by one byte or by
\* nothing included; it returns an error value and does not fail otherwise.
C18_ErrorsReturned ==
    normalized.set =>
        /\ request_path[1] # 47
               => normalized.r = NormErr("PathNotInOriginForm")
        /\ (request_path[1] = 47 /\ BadPercent(request_path))
               => normalized.r = NormErr("IllegalPercentEncoding")

\* the same for targets in which no '%' is followed by exactly one byte
ErrorsReturnedUnlessOneByteFollows ==
    (normalized.set
        /\ ~(Len(request_path) >= 2 /\ request_path[Len(request_path) - 1] = 37))
       => /\ request_path[1] # 47
               => normalized.r = NormErr("PathNotInOriginForm")
          /\ (request_path[1] = 47 /\ BadPercent(request_path))
               => normalized.r = NormErr("IllegalPercentEncoding")


(***************************************************************************)
(* SpecHeaders: one Headers map (src/server/mod.rs) under inserts and      *)
(* lookups.  The names are the strings of up to two bytes over 'a', 'A'    *)
(* and '-', and some of three; the i-th insert carries the digit i.        *)
(***************************************************************************)
MaxInserts == 2

HeaderNames ==
    UNION { [1..n -> {97, 65, 45}] : n \in 0..2 }
        \cup { <<97, 45, 97>>, <<65, 45, 65>>, <<97, 45, 65>>, <<45, 97, 97>>,
               <<97, 45, 45>>, <<97, 65, 97>> }

InitHeaders ==
    /\ HeadersIdle
    /\ CodecIdle
    /\ CgiIdle
    /\ PathIdle
    /\ RespIdle
    /\ RouterIdle
    /\ ServeIdle
    /\ DriverIdle
    /\ ParseIdle

\* headers.insert(name, value)
HInsert ==
    /\ Len(inserted) < MaxInserts
    /\ \E name \in HeaderNames :
          /\ hmap' = Headers_insert(hmap, name, <<49 + Len(inserted)>>)
          /\ inserted' = Append(inserted, [name |-> name, value |-> <<49 + Len(inserted)>>])
    /\ UNCHANGED looked
    /\ UNCHANGED notHeadersVars

\* headers.get(name)
HGet ==
    /\ \E name \in HeaderNames :
          looked' = [set |-> TRUE, name |-> name, result |-> Headers_get(hmap, name),
                     at |-> Len(inserted)]
    /\ UNCHANGED <<hmap, inserted>>
    /\ UNCHANGED notHeadersVars

NextHeaders ==
    \/ HInsert
    \/ HGet

SpecHeaders == InitHeaders /\ [][NextHeaders]_vars

\* the name lowercased, then its first byte and every byte that follows a
\* '-' uppercased
Capitalized(x) ==
    [i \in 1..Len(x) |->
        IF i = 1 \/ x[i - 1] = 45 THEN to_ascii_uppercase(to_ascii_lowercase(x[i]))
        ELSE to_ascii_lowercase(x[i])]

\* x and y differ at most in ASCII case
SameButCase(x, y) ==
    /\ Len(x) = Len(y)
    /\ \A i \in 1..Len(x) : to_ascii_lowercase(x[i]) = to_ascii_lowercase(y[i])

\* N(N(x)) = N(x): every key of the map is its own normal form
KeysAreFixedPoints == \A k \in DOMAIN hmap : normalize_header_name(k) = k

\* get does not tell names apart that differ only in case
GetIgnoresCase ==
    \A x, y \in HeaderNames :
        SameButCase(x, y) => Headers_get(hmap, x) = Headers_get(hmap, y)

\* names that do not begin with '-' are stored under their capitalized form
CapitalizedUnlessLeadingHyphen ==
    \A i \in DOMAIN inserted :
        (inserted[i].name = <<>> \/ inserted[i].name[1] # 45)
            => normalize_header_name(inserted[i].name) = Capitalized(inserted[i].name)

\* C19: a header name is normalized by lowercasing it and then uppercasing
\* its first byte and every byte that follows a '-'; normalizing twice is
\* normalizing once; names that differ only in ASCII case have the same
\* key, so get is case-insensitive.
C19_NameNormalization ==
    /\ DOMAIN hmap = { Capitalized(inserted[i].name) : i \in DOMAIN inserted }
    /\ KeysAreFixedPoints
    /\ GetIgnoresCase

\* the values of the inserts of log whose names have the key of `name`
RECURSIVE ValuesFor(_, _)
ValuesFor(log, name) ==
    IF log = <<>> THEN <<>>
    ELSE (IF normalize_header_name(Head(log).name) = normalize_header_name(name)
          THEN <<Head(log).value>> ELSE <<>>)
             \o ValuesFor(Tail(log), name)

RECURSIVE JoinedByComma(_)
JoinedByComma(vals) ==
    IF Len(vals) = 1 THEN Head(vals)
    ELSE Head(vals) \o <<44>> \o JoinedByComma(Tail(vals))

\* what get(name) is to return after the inserts of log
ExpectedGet(log, name) ==
    IF ValuesFor(log, name) = <<>> THEN [some |-> FALSE]
    ELSE [some |-> TRUE, val |-> JoinedByComma(ValuesFor(log, name))]

\* C20: an insert on a name whose key is present appends "," and the value;
\* after any inserts, get(name) returns the values of the inserts with the
\* key of name, joined by "," in the order of the inserts, and nothing for
\* a key never inserted.
C20_InsertAppends ==
    /\ \A name \in HeaderNames : Headers_get(hmap, name) = ExpectedGet(inserted, name)
    /\ looked.set =>
           looked.result = ExpectedGet(SubSeq(inserted, 1, looked.at), looked.name)

\* two inserts under names that differ in case, then a get that returned
\* both values
C20_Witness ==
    /\ looked.set
    /\ looked.at = 2
    /\ inserted[1].name # inserted[2].name
    /\ looked.result = [some |-> TRUE, val |-> <<49, 44, 50>>]


(***************************************************************************)
(* SpecResponse: start, write and flush looked at one call at a time.      *)
(***************************************************************************)
\* one header as write_headers writes it
HeaderLine(name, value) == name \o B_ColonSp \o value \o CRLF

\* the bytes t occur in s
Contains(s, t) ==
    \E i \in 0..(Len(s) - Len(t)) : SubSeq(s, i + 1, i + Len(t)) = t

\* a start that returned Ok, and the response as it returned it
Started == lastop.set /\ lastop.op = "start" /\ lastop.ok

\* start wrote the status line first and the blank line last, and left an
\* empty chunk buffer of capacity 4096
StartWritesHead ==
    Started =>
        /\ res.phase = "Streaming"
        /\ res.wire = lastop.sent
        /\ StartsWith(res.wire, StatusLine(lastop.before.code, lastop.before.reason))
        /\ EndsWith(res.wire, CRLF \o CRLF)
        /\ res.buffer = <<>>
        /\ res.cap = 4096

\* the Transfer-Encoding header start wrote is what was set while Fresh, if
\* anything, with ",Chunked" after it
StartAppendsChunked ==
    Started =>
        LET was == Headers_get(lastop.before.headers, B_TransferEncoding)
            now == IF was.some THEN was.val \o <<44>> \o B_Chunked ELSE B_Chunked
        IN  Contains(res.wire, CRLF \o HeaderLine(B_TransferEncoding, now))

\* C22: the header block start() writes has a Transfer-Encoding header
\* whose value is exactly Chunked, whatever headers were set while the
\* response was Fresh; start() writes the status line and the headers
\* before any chunk and leaves an empty chunk buffer of capacity 4096.
C22_TransferEncodingForced ==
    /\ StartWritesHead
    /\ Started => Contains(res.wire, CRLF \o HeaderLine(B_TransferEncoding, B_Chunked))

\* a chunk on the wire: hex length, CR LF, payload, CR LF
Chunk(payload) == Hex(Len(payload)) \o CRLF \o payload \o CRLF

\* a write of a non-empty buf that returned Ok
Wrote == lastop.set /\ lastop.op = "write" /\ lastop.ok /\ Len(lastop.buf) > 0

\* the room left in the chunk buffer when the last operation began
RemainingBefore == lastop.before.cap - Len(lastop.before.buffer)

\* C29: write(buf), buf not empty.  If buf fits in the room left in the
\* chunk buffer it is appended and nothing is sent; else if buf is longer
\* than the buffer's capacity the buffered bytes go out as one chunk and
\* then buf as one chunk; else the buffer is filled to capacity and sent as
\* one chunk, and the rest of buf is appended.  write returns the length of
\* buf, and a chunk is its hex length, CR LF, the payload, CR LF.
C29_WriteCases ==
    /\ (clientUp /\ lastop.set /\ lastop.op = "write") => lastop.ok
    /\ Wrote =>
         LET b == lastop.before
             buf == lastop.buf
         IN  /\ lastop.n = Len(buf)
             /\ Len(buf) <= RemainingBefore =>
                  /\ lastop.sent = <<>>
                  /\ res.buffer = b.buffer \o buf
             /\ (Len(buf) > RemainingBefore /\ Len(buf) > b.cap) =>
                  /\ lastop.sent = (IF b.buffer = <<>> THEN <<>> ELSE Chunk(b.buffer))
                                       \o Chunk(buf)
                  /\ res.buffer = <<>>
             /\ (Len(buf) > RemainingBefore /\ Len(buf) <= b.cap) =>
                  /\ lastop.sent = Chunk(b.buffer \o SubSeq(buf, 1, RemainingBefore))
                  /\ Len(b.buffer \o SubSeq(buf, 1, RemainingBefore)) = b.cap
                  /\ res.buffer = SubSeq(buf, RemainingBefore + 1, Len(buf))

\* C29 witness: a write that filled the buffer with the first bytes of buf,
\* sent it and kept the rest
C29_Witness ==
    /\ Wrote
    /\ RemainingBefore > 0
    /\ Len(lastop.buf) > RemainingBefore
    /\ Len(lastop.buf) <= lastop.before.cap
    /\ Len(res.buffer) > 0
    /\ Len(lastop.sent) > lastop.before.cap

\* a write longer than the capacity that found bytes in the buffer
WroteDirectly ==
    /\ Wrote
    /\ Len(lastop.buf) > lastop.before.cap
    /\ lastop.before.buffer # <<>>

\* a write that filled the buffer exactly and sent nothing
WroteToTheBrim ==
    /\ Wrote
    /\ Len(lastop.buf) = RemainingBefore
    /\ lastop.sent = <<>>

\* the chunk flushed: every byte of it is out and the socket flush failed
FlushOfChunkFailed ==
    /\ lastop.set
    /\ lastop.op = "write"
    /\ ~lastop.ok
    /\ lastop.sent = Chunk(lastop.buf)

\* a blank line (CR LF CR LF) begins at index i of w
BlankLineAt(w, i) == i + 3 <= Len(w) /\ SubSeq(w, i, i + 3) = CRLF \o CRLF

\* index of the last byte of the first blank line of w, 0 if there is none
HeadEnd(w) ==
    IF \E i \in 1..Len(w) : BlankLineAt(w, i)
    THEN 3 + (CHOOSE i \in 1..Len(w) :
                 BlankLineAt(w, i) /\ \A j \in 1..(i - 1) : ~BlankLineAt(w, j))
    ELSE 0

is_hex_digit(x) == (48 <= x /\ x <= 57) \/ (97 <= x /\ x <= 102)
hex_value(x) == IF x <= 57 THEN x - 48 ELSE x - 87

\* the chunks of w read from index i on, as a client reads them: the hex
\* digits up to CR LF, that many bytes, CR LF.  acc is the number read so
\* far in the current length line, started tells that it has a digit.
\* ok: w is whole chunks from i to its end; payload: their payloads joined
RECURSIVE ReadChunks(_, _, _, _, _)
ReadChunks(w, i, acc, started, payload) ==
    IF i > Len(w) THEN [ok |-> ~started, payload |-> payload]
    ELSE IF is_hex_digit(w[i])
    THEN ReadChunks(w, i + 1, acc * 16 + hex_value(w[i]), TRUE, payload)
    ELSE IF started /\ i + 1 + acc + 2 <= Len(w)
                    /\ SubSeq(w, i, i + 1) = CRLF
                    /\ SubSeq(w, i + 2 + acc, i + 3 + acc) = CRLF
    THEN ReadChunks(w, i + 4 + acc, 0, FALSE,
                    payload \o SubSeq(w, i + 2, i + 1 + acc))
    ELSE [ok |-> FALSE, payload |-> payload]

\* the chunks on the wire after the head
ChunksSent == ReadChunks(res.wire, HeadEnd(res.wire) + 1, 0, FALSE, <<>>)

\* the bytes accepted by write are the payloads of the chunks sent, in
\* order, and then the bytes in the chunk buffer
Conserved ==
    /\ HeadEnd(res.wire) > 0
    /\ ChunksSent.ok
    /\ ChunksSent.payload \o res.buffer = accepted
    /\ Len(res.buffer) <= CHUNK_CAPACITY

\* C30: whatever write and flush calls were made on a streaming response,
\* the payloads of the chunks sent so far followed by the bytes in the
\* chunk buffer are the bytes write accepted, in order; the chunk buffer
\* holds at most 4096 bytes; every chunk sent declares the length of its
\* payload.
C30_BytesConserved == res.phase = "Streaming" => Conserved

\* the same while every call on the client socket has succeeded
ConservedWhileClientUp == (res.phase = "Streaming" /\ clientUp) => Conserved

\* three chunks are out and bytes are buffered
ThreeChunksSent ==
    /\ res.phase = "Streaming"
    /\ clientUp
    /\ Len(accepted) > 2 * CHUNK_CAPACITY
    /\ Len(res.buffer) > 0
    /\ Len(ChunksSent.payload) > 2 * CHUNK_CAPACITY

(***************************************************************************)
(* SpecDriver: what a request has read from the upstream and sent to the   *)
(* client.                                                                 *)
(***************************************************************************)
\* the reply the upstream gives to request number i under the name `name`
ScriptOf(name, i) == CHOOSE sc \in AllReplyScripts(i) : sc.name = name

\* the content of the Stdout records of request id in the byte stream
\* `bytes`, in order, read frame by frame from the record headers
RECURSIVE StdoutOf(_, _)
StdoutOf(bytes, id) ==
    IF Len(bytes) < 8 THEN <<>>
    ELSE (IF bytes[2] = STDOUT /\ u16_at(bytes, 3) = id
          THEN SubSeq(bytes, 9, 8 + u16_at(bytes, 5)) ELSE <<>>)
             \o StdoutOf(DropBytes(bytes, 8 + u16_at(bytes, 5) + bytes[7]), id)

\* an empty line ends at index i of s: the line end before it and its own
EmptyLineEndsAt(s, i) ==
    \/ i >= 2 /\ SubSeq(s, i - 1, i) = <<10, 10>>
    \/ i >= 4 /\ SubSeq(s, i - 3, i) = CRLF \o CRLF

\* the bytes of s after its first empty line; none if it has no empty line
AfterEmptyLine(s) ==
    IF \E i \in 1..Len(s) : EmptyLineEndsAt(s, i)
    THEN DropBytes(s, CHOOSE i \in 1..Len(s) :
                          EmptyLineEndsAt(s, i)
                              /\ \A j \in 1..(i - 1) : ~EmptyLineEndsAt(s, j))
    ELSE <<>>

IsPrefix(p, s) == Len(p) <= Len(s) /\ SubSeq(s, 1, Len(p)) = p

\* the body in the records thread t's request has consumed: what the
\* Stdout records carry after the CGI header block
BodySent(t) == AfterEmptyLine(StdoutOf(th[t].taken, th[t].num))

\* the records thread t's request has consumed are those of the reply to it
OwnReply(t) ==
    IsPrefix(th[t].taken, Flatten(ScriptOf(th[t].script, th[t].num).records))

\* serve_inner of thread t is over
Over(t) == th[t].pc \in {"done", "dead"}

\* the chunks thread t's response has put on the wire; the destructor ends
\* the wire with "0\r\n"
ChunksOf(t) ==
    LET w == th[t].res.wire
        body == IF Over(t) /\ EndsWith(w, B_LastChunk)
                THEN SubSeq(w, 1, Len(w) - Len(B_LastChunk)) ELSE w
    IN  ReadChunks(body, HeadEnd(w) + 1, 0, FALSE, <<>>)

\* the body bytes thread t's response has taken so far: those sent in
\* chunks and those in its chunk buffer (which its destructor sends)
Delivered(t) ==
    IF Over(t) THEN ChunksOf(t).payload
    ELSE ChunksOf(t).payload \o th[t].res.buffer

\* the replies of the upstream that are a CGI header block in Stdout
\* records, then Stdout records, then EndRequest
WellFormedScripts == {"status", "body", "split", "pieces"}

\* C23: a request whose upstream reply is well formed (Stdout records with
\* a complete CGI header block, then Stdout and Stderr records, then
\* EndRequest, all with the request's id) ends with serve_inner returning
\* Ok, however the bytes of the reply are divided over the socket reads.
C23_AnyDivisionOfReads ==
    \A t \in Threads :
       (Over(t) /\ th[t].script \in WellFormedScripts) => th[t].result = "Ok"

\* the same for a first request that found every delivery of the upstream
\* in a read of its own, each holding whole records
OkWhenReadRecordByRecord ==
    \A t \in Threads :
       ( /\ Over(t)
         /\ th[t].by = 1
         /\ th[t].script \in {"status", "body", "split", "stderr", "nostatus"}
         /\ th[t].nreads = Len(ScriptOf(th[t].script, th[t].num).records) )
       => th[t].result = "Ok"

\* a request read record by record to its EndRequest
ReadRecordByRecord ==
    \E t \in Threads :
       /\ Over(t)
       /\ th[t].script = "body"
       /\ th[t].nreads = 3
       /\ th[t].result = "Ok"

\* a well-formed reply whose record came in two reads: the header loop
\* found the buffer as long as before and panicked
SplitRecordPanics ==
    \E t \in Threads :
       /\ th[t].pc = "dead"
       /\ th[t].script = "pieces"
       /\ th[t].stalled = "headers"
       /\ ~upClosed

\* a well-formed reply of which a read in the body loop brought two
\* records: the loop took the second one for a stalled upstream
BundledRecordsRejected ==
    \E t \in Threads :
       /\ th[t].pc = "done"
       /\ th[t].script = "body"
       /\ th[t].stalled = "body"
       /\ th[t].err = "FastCgiProtocolViolation"
       /\ ~upClosed

StderrSkipped ==
    \E t \in Threads :
       /\ th[t].result = "Ok"
       /\ th[t].script = "stderr"
       /\ Delivered(t) = B_Hello

\* the replies of the upstream that hold a record with another request's
\* id or of a type the phase does not allow
ViolatingScripts == {"wrongid", "latewrongid", "values", "endonly"}

\* C25: a complete record with another id than the request's, or of a type
\* that the phase does not allow, makes serve_inner return
\* FastCgiProtocolViolation, and nothing of that record reaches the client.
C25_ViolationReturned ==
    \A t \in Threads :
       (Over(t) /\ th[t].script \in ViolatingScripts /\ th[t].by = 1) =>
          /\ th[t].pc = "done"
          /\ th[t].result = "Err"
          /\ th[t].err = "FastCgiProtocolViolation"
          /\ IsPrefix(Delivered(t), BodySent(t))

\* the same without the record of type GET_VALUES_RESULT
ViolationReturnedForKnownTypes ==
    \A t \in Threads :
       (Over(t) /\ th[t].script \in ViolatingScripts \ {"values"} /\ th[t].by = 1) =>
          /\ th[t].pc = "done"
          /\ th[t].result = "Err"
          /\ th[t].err = "FastCgiProtocolViolation"
          /\ IsPrefix(Delivered(t), BodySent(t))

\* a violation in the body phase
ViolationInBody ==
    \E t \in Threads :
       /\ th[t].script = "latewrongid"
       /\ th[t].started
       /\ th[t].err = "FastCgiProtocolViolation"

\* what the CGI header block of a reply sets: the status, the content type
\* and the header X-A
HeadSent(name) ==
    IF name = "nostatus"
    THEN [code |-> 200, reason |-> B_Ok, content_type |-> B_text_html]
    ELSE [code |-> 200, reason |-> B_OK, content_type |-> B_text_plain]

\* the first body bytes of a reply: what follows the empty line in the
\* Stdout record that completes the header block
ResidualSent(name) == IF name \in {"nostatus", "split"} THEN B_Hi ELSE B_Hello

StartedWithoutStatus ==
    \E t \in Threads :
       /\ th[t].started
       /\ th[t].script = "nostatus"
       /\ th[t].res.reason = B_Ok

\* C27: serve_inner does not return, on any path, while records of its
\* request up to EndRequest are still unread on the upstream socket or
\* still to come.
C27_ReadsToEndRequest ==
    \A t \in Threads :
       (th[t].pc = "done" /\ th[t].script # "none") => (upIn = <<>> /\ upScript = <<>>)

\* a request that ended Ok has left nothing of its reply unread
OkLeavesNothingUnread ==
    \A t \in Threads :
       (Over(t) /\ th[t].by = 1 /\ th[t].result = "Ok") =>
           (upIn = <<>> /\ upScript = <<>>)

\* C28: in the header loop and in the body loop alike, a refill that
\* brings as many bytes as the one before ends the request with an error
\* that serve_inner returns to Handler::serve.
C28_StallReturnsError ==
    \A t \in Threads :
       th[t].stalled # "none" => (th[t].pc = "done" /\ th[t].result = "Err")

\* the same for the body loop alone
StallInBodyReturnsError ==
    \A t \in Threads :
       th[t].stalled = "body" =>
           /\ th[t].pc = "done"
           /\ th[t].result = "Err"
           /\ th[t].err = "FastCgiProtocolViolation"

\* the body loop stalled
StalledInBody == \E t \in Threads : th[t].stalled = "body"

(***************************************************************************)
(* The end of a response: zero-length chunks and the destructor's test.    *)
(***************************************************************************)
\* the number of zero-length chunk lines ("0" CR LF at the place of a chunk
\* length) in w from index i on, w read chunk by chunk as a client reads
\* it; an empty line where a length should be (the end of the trailer) is
\* passed over
RECURSIVE ZeroChunkLines(_, _, _, _, _)
ZeroChunkLines(w, i, acc, started, count) ==
    IF i > Len(w) THEN count
    ELSE IF is_hex_digit(w[i])
    THEN ZeroChunkLines(w, i + 1, acc * 16 + hex_value(w[i]), TRUE, count)
    ELSE IF i + 1 <= Len(w) /\ SubSeq(w, i, i + 1) = CRLF
    THEN IF ~started THEN ZeroChunkLines(w, i + 2, 0, FALSE, count)
         ELSE IF acc = 0 THEN ZeroChunkLines(w, i + 2, 0, FALSE, count + 1)
         ELSE IF i + 1 + acc + 2 <= Len(w)
                   /\ SubSeq(w, i + 2 + acc, i + 3 + acc) = CRLF
         THEN ZeroChunkLines(w, i + 4 + acc, 0, FALSE, count)
         ELSE count
    ELSE count

\* the last operation was the destructor, on a Streaming response, and the
\* client socket took every byte of it
DroppedStreaming ==
    /\ lastop.set
    /\ lastop.op = "drop"
    /\ lastop.before.phase = "Streaming"
    /\ atDrop.set
    /\ atDrop.accepted

\* write and flush send no zero-length chunk
NoZeroChunkWhileStreaming ==
    (lastop.set /\ lastop.op \in {"write", "flush"}) =>
        ZeroChunkLines(lastop.sent, 1, 0, FALSE, 0) = 0

\* C31: write and flush never send a zero-length chunk, and the destructor
\* of a Streaming response sends exactly one zero-length chunk line, as the
\* last bytes of the response, whether the chunk buffer is empty or not.
C31_OneZeroChunk ==
    /\ NoZeroChunkWhileStreaming
    /\ DroppedStreaming =>
          /\ ZeroChunkLines(lastop.sent, 1, 0, FALSE, 0) = 1
          /\ EndsWith(lastop.sent, B_LastChunk)

\* the destructor with bytes in the chunk buffer sends them as a chunk and
\* one zero-length chunk line after it
OneZeroChunkAfterBufferedBytes ==
    (DroppedStreaming /\ Len(lastop.before.buffer) > 0) =>
        /\ ZeroChunkLines(lastop.sent, 1, 0, FALSE, 0) = 1
        /\ lastop.sent = Chunk(lastop.before.buffer) \o B_LastChunk

\* the destructor with an empty chunk buffer sends an empty chunk and the
\* terminator: two zero-length chunk lines
TwoZeroChunksWhenBufferEmpty ==
    (DroppedStreaming /\ Len(lastop.before.buffer) = 0) =>
        /\ ZeroChunkLines(lastop.sent, 1, 0, FALSE, 0) = 2
        /\ lastop.sent = Chunk(<<>>) \o B_LastChunk

\* a Streaming response destroyed after a flush emptied its buffer
DroppedAfterFlush ==
    /\ DroppedStreaming
    /\ Len(lastop.before.buffer) = 0
    /\ Len(accepted) > 0

\* a Streaming response destroyed with bytes buffered, after a chunk went out
DroppedWithBufferedBytes ==
    /\ DroppedStreaming
    /\ Len(lastop.before.buffer) > 0
    /\ Len(accepted) > CHUNK_CAPACITY

\* the bytes after the head in the bytes s
AfterHead(s) == SubSeq(s, HeadEnd(s) + 1, Len(s))

\* the last operation was the destructor, on a response that was Fresh
DroppedFresh == lastop.set /\ lastop.op = "drop" /\ lastop.before.phase = "Fresh"

\* the last operation was an of_stream that returned Ok
CopiedStream == lastop.set /\ lastop.op = "of_stream" /\ lastop.ok

\* the last operation was a start that returned an error
StartFailed == lastop.set /\ lastop.op = "start" /\ ~lastop.ok

\* C32: the chunk buffer has a capacity exactly in the responses start
\* returned; the destructor of a Fresh response writes nothing; of_stream
\* writes the head without a Transfer-Encoding header of its own and the
\* body as it is, with no chunk frame and no terminator; a start that
\* failed in the head writes no chunk frame and no terminator; the
\* destructor of a Streaming response writes a chunk frame and "0\r\n".
C32_CapacityMarksStreaming ==
    /\ res.phase = "Fresh" => res.cap = 0
    /\ res.phase = "Streaming" => res.cap > 0
    /\ DroppedFresh => (lastop.sent = <<>> /\ res.wire = <<>>)
    /\ CopiedStream =>
          /\ res.phase = "Gone"
          /\ StartsWith(lastop.sent, StatusLine(lastop.before.code, lastop.before.reason))
          /\ AfterHead(lastop.sent) = lastop.buf
          /\ B_TransferEncoding \notin DOMAIN lastop.before.headers
                 => ~Contains(lastop.sent, B_TransferEncoding)
          /\ ~Contains(lastop.sent, B_Chunked)
          /\ res.wire = lastop.sent
    /\ StartFailed =>
          /\ res.phase = "Gone"
          /\ HeadEnd(lastop.sent) = 0
          /\ \E order \in HeaderOrders(Headers_insert(lastop.before.headers,
                                                      B_TransferEncoding, B_Chunked)) :
                IsPrefix(lastop.sent,
                         Flatten(write_headers_pieces(
                             headers_mut_insert(lastop.before, B_TransferEncoding, B_Chunked),
                             order)))
    /\ DroppedStreaming =>
          /\ StartsWith(lastop.sent, Chunk(lastop.before.buffer))
          /\ EndsWith(lastop.sent, B_LastChunk)

\* C32 witness: of_stream has copied a body that is not empty
C32_Witness ==
    /\ CopiedStream
    /\ Len(lastop.buf) > 0
    /\ EndsWith(res.wire, lastop.buf)

\* a start failed after it had written part of the head
StartFailedInHead == StartFailed /\ Len(lastop.sent) > 0

\* a Fresh response was destroyed after its status and headers were set
DroppedFreshWithHeaders ==
    /\ DroppedFresh
    /\ lastop.before.code # 200
    /\ DOMAIN lastop.before.headers # {}

(***************************************************************************)
(* SpecCounter: the request counter of a Connection over many calls of     *)
(* Handler::serve.  A call loads the counter, stores it back, takes the    *)
(* mutex, sends the records of its request (BeginRequest, Params, the      *)
(* empty Params and, the request having no body, the empty Stdin) and,     *)
(* when the reply has been read, returns.  The upstream has read what the  *)
(* former requests sent: upOut holds the records of the last request       *)
(* sent.  Calls overlap only among the first MaxOverlapped calls and among *)
(* the first MaxOverlapped calls after each 256 calls.                     *)
(***************************************************************************)
MaxServes == 260

MaxOverlapped == 3

CounterRequest == Req(U_Page, <<>>, "eof")

InitCounter ==
    /\ request_id = 0
    /\ conn = [holder |-> 0, poisoned |-> FALSE]
    /\ th = [t \in Threads |-> IdleThread]
    /\ nserved = 0
    /\ upOut = <<>>
    /\ upIn = <<>>
    /\ upClosed = FALSE
    /\ upScript = <<>>
    /\ ioUnlocked = FALSE
    /\ aborts = {}
    /\ RespIdle
    /\ FunctionsIdle
    /\ RouterIdle
    /\ ServeIdle

\* driver.rs 49: the load of the request counter
CounterLoad(t) ==
    /\ th[t].pc = "idle"
    /\ nserved < MaxServes
    /\ (\E u \in Threads : th[u].pc # "idle") => nserved % 256 < MaxOverlapped
    /\ \A u \in Threads : u < t => th[u].pc # "idle"
    /\ th' = [th EXCEPT ![t] =
                 [IdleThread EXCEPT !.pc = "loaded", !.by = nserved + 1,
                                    !.num = request_number_of(request_id)]]
    /\ nserved' = nserved + 1
    /\ UNCHANGED <<request_id, conn, upOut, upIn, upClosed, upScript, ioUnlocked, aborts>>
    /\ UNCHANGED notDriverVars

\* driver.rs 50-51: the store of the request counter
CounterStore(t) ==
    /\ th[t].pc = "loaded"
    /\ request_id' = stored_counter(th[t].num)
    /\ th' = [th EXCEPT ![t].pc = "stored"]
    /\ UNCHANGED <<conn, nserved, upOut, upIn, upClosed, upScript, ioUnlocked, aborts>>
    /\ UNCHANGED notDriverVars

\* driver.rs 53-56: the mutex is taken
CounterLock(t) ==
    /\ th[t].pc = "stored"
    /\ CanLock(conn)
    /\ conn' = [conn EXCEPT !.holder = t]
    /\ th' = [th EXCEPT ![t].pc = "locked"]
    /\ UNCHANGED <<request_id, nserved, upOut, upIn, upClosed, upScript, ioUnlocked, aborts>>
    /\ UNCHANGED notDriverVars

\* driver.rs 58-79: the records of the request, with the request number as
\* their id, and the Stdin record that ends the (empty) body
CounterSend(t) ==
    /\ th[t].pc = "locked"
    /\ \E order \in HeaderOrders(CounterRequest.headers) :
          LET id == as_u16(th[t].num)
              r == initialize_request(WEBROOT, id, CounterRequest, order)
          IN  upOut' = Logged(th[t].by, r.records \o <<stdin(id, <<>>).bytes>>)
    /\ th' = [th EXCEPT ![t].pc = "headers"]
    /\ UNCHANGED <<request_id, conn, nserved, upIn, upClosed, upScript, ioUnlocked, aborts>>
    /\ UNCHANGED notDriverVars

\* driver.rs 83-229: the reply is read to its EndRequest; serve_inner
\* returns and the mutex is released
CounterReturn(t) ==
    /\ th[t].pc = "headers"
    /\ conn' = [conn EXCEPT !.holder = 0]
    /\ th' = [th EXCEPT ![t] = IdleThread]
    /\ UNCHANGED <<request_id, nserved, upOut, upIn, upClosed, upScript, ioUnlocked, aborts>>
    /\ UNCHANGED notDriverVars

NextCounter ==
    \/ \E t \in Threads : CounterLoad(t)
    \/ \E t \in Threads : CounterStore(t)
    \/ \E t \in Threads : CounterLock(t)
    \/ \E t \in Threads : CounterSend(t)
    \/ \E t \in Threads : CounterReturn(t)

SpecCounter == InitCounter /\ [][NextCounter]_vars

\* the request ids in the records the last request sent
IdsSent == { u16_at(upOut[k].bytes, 3) : k \in 1..Len(upOut) }

\* the request numbers of the calls that have loaded the counter and not
\* returned
NumbersHeld == { th[t].num : t \in { u \in Threads : th[u].pc # "idle" } }

\* the stored counter is in 0..255
CounterInRange == request_id \in 0..255

\* the request ids sent and held are in 1..256
IdsFromOneTo256 == IdsSent \cup NumbersHeld \subseteq 1..256

\* C33: the request id in the BeginRequest, Params and Stdin records, which
\* is the id the records of the reply are compared with, is always in
\* 0..255, and so is the stored counter, for any number of requests.
C33_IdBelow256 ==
    /\ CounterInRange
    /\ IdsSent \cup NumbersHeld \subseteq 0..255

\* the records sent carry the id 256
Sent256 == IdsSent = {256} /\ Len(upOut) >= 4

\* C34: the request id in the BeginRequest, Params and Stdin records is
\* never 0, for any number of requests, the request on which the counter
\* wraps around included.
C34_IdNeverZero == 0 \notin IdsSent \cup NumbersHeld

\* C34 witness: the counter has wrapped around to 0 and the request that
\* made it do so has sent its records
C34_Witness ==
    /\ nserved >= 256
    /\ request_id = 0
    /\ upOut # <<>>
    /\ upOut[1].by = nserved
    /\ Len(upOut) >= 4
    /\ \E t \in Threads : th[t].pc = "headers" /\ th[t].by = nserved

\* the calls that have stored the counter
Stored == nserved - Cardinality({ t \in Threads : th[t].pc = "loaded" })

\* C35: the update of the request counter is atomic: the calls that have
\* made it have advanced the counter by one each (modulo 256), and no two
\* calls that overlap hold the same request number.
C35_AtomicIncrement ==
    /\ request_id = Stored % 256
    /\ \A t, u \in Threads :
          (t # u /\ th[t].pc # "idle" /\ th[u].pc # "idle") => th[t].num # th[u].num

\* before the counter wraps around, increments are lost but none is
\* invented: the counter is at most the number of calls that stored it, and
\* at least 1 once a call has
LostNotInvented ==
    nserved <= 255 =>
        /\ request_id <= Stored
        /\ Stored >= 1 => request_id >= 1

\* two calls that overlap hold the same request number
SameNumberTwice ==
    \E t, u \in Threads :
       /\ t # u
       /\ th[t].pc = "stored"
       /\ th[u].pc = "stored"
       /\ th[t].num = th[u].num

\* C36: once a thread has panicked while holding the mutex of the upstream
\* socket, the mutex stays poisoned, every call that comes to the lock
\* returns Error::Poison, and nothing more is written to the upstream nor
\* anything to the client of such a call.
C36_PoisonIsFinal ==
    [][ conn.poisoned =>
          /\ conn'.poisoned
          /\ upOut' = upOut
          /\ \A t \in Threads :
                /\ th'[t].pc \notin InFlightPcs
                /\ (th[t].pc = "stored" /\ th'[t].pc # "stored") =>
                      /\ th'[t].pc = "done"
                      /\ th'[t].result = "Err"
                      /\ th'[t].err = "Poison"
                      /\ th'[t].res.phase = "Gone"
                      /\ th'[t].res.wire = <<>> ]_vars

\* C36 witness: a call has returned Error::Poison after another thread
\* panicked with the mutex held, having sent its request
C36_Witness ==
    /\ conn.poisoned
    /\ upOut # <<>>
    /\ \E t \in Threads :
          /\ th[t].pc = "done"
          /\ th[t].err = "Poison"
          /\ th[t].by = 2
          /\ \A k \in 1..Len(upOut) : upOut[k].by = 1

\* a call was past the counter and before the lock when the holder panicked
PoisonedWhileWaiting ==
    /\ conn.poisoned
    /\ \E t \in Threads : th[t].pc = "stored" /\ th[t].by = 2

(***************************************************************************)
(* SpecParse: parse_inner (src/server/mod.rs) on one client connection.    *)
(* The client sends a request in one piece or in two, cut anywhere, and    *)
(* may close the connection when it has sent it all; each iteration of     *)
(* the loop of parse_inner is a step.  The requests are the one of the     *)
(* test parse_request_basic (with one header), a request with a body, and  *)
(* the one of parse_request_fails_on_bad_bytes.                            *)
(***************************************************************************)
MaxPieces == 2

\* "GET / HTTP/1.1\r\nHost: h\r\n\r\n"
REQ_Basic == <<71, 69, 84, 32, 47, 32, 72, 84, 84, 80, 47, 49, 46, 49, 13, 10, 72, 111, 115, 116, 58, 32, 104, 13, 10, 13, 10>>

\* "POST /p HTTP/1.1\r\nHost: h\r\n\r\nHi"
REQ_Body == <<80, 79, 83, 84, 32, 47, 112, 32, 72, 84, 84, 80, 47, 49, 46, 49, 13, 10, 72, 111, 115, 116, 58, 32, 104, 13, 10, 13, 10, 72, 105>>

\* "GET /\xff HTTP/1.1\r\n"
REQ_BadBytes == <<71, 69, 84, 32, 47, 255, 32, 72, 84, 84, 80, 47, 49, 46, 49, 13, 10>>

ParseRequests == { REQ_Basic, REQ_Body, REQ_BadBytes }

\* the ways of sending the bytes s in at most n pieces, none of them empty
RECURSIVE PiecesOf(_, _)
PiecesOf(s, n) ==
    { <<s>> } \cup
    ( IF n <= 1 THEN {}
      ELSE UNION { { <<SubSeq(s, 1, k)>> \o rest : rest \in PiecesOf(DropBytes(s, k), n - 1) }
                   : k \in 1..(Len(s) - 1) } )

\* httparse::Request::parse on the requests above: an error at a byte that
\* no request line may hold, Complete with the length of the head when the
\* empty line is there, Partial otherwise
httparse_parse(buffer) ==
    IF \E i \in 1..Len(buffer) : buffer[i] = 255 THEN [status |-> "Error", bytes |-> 0]
    ELSE IF HeadEnd(buffer) > 0 THEN [status |-> "Complete", bytes |-> HeadEnd(buffer)]
    ELSE [status |-> "Partial", bytes |-> 0]

\* one iteration of the loop of parse_inner on the buffer fill_buf returned
parse_iteration(last_buffer_len, buffer) ==
    IF Len(buffer) = last_buffer_len
    THEN [how |-> "return", result |-> "Err", err |-> "RequestIncomplete",
          consumed |-> 0, last |-> last_buffer_len]
    ELSE LET r == httparse_parse(buffer) IN
         IF r.status = "Error"
         THEN [how |-> "return", result |-> "Err", err |-> "Parse", consumed |-> 0,
               last |-> Len(buffer)]
         ELSE IF r.status = "Complete"
         THEN [how |-> "return", result |-> "Ok", err |-> "none", consumed |-> r.bytes,
               last |-> Len(buffer)]
         ELSE [how |-> "continue", result |-> "none", err |-> "none", consumed |-> 0,
               last |-> Len(buffer)]

\* a connection is accepted: InnerRequest::parse makes its BufReader and
\* calls parse_inner.  request: what the client sends in all; script: the
\* pieces it has still to send; incoming: the bytes the socket holds
InitParse ==
    /\ \E rq \in ParseRequests : \E sc \in PiecesOf(rq, MaxPieces) :
          parsing = [set |-> TRUE, request |-> rq, script |-> sc, incoming |-> <<>>,
                     closed |-> FALSE, rbuf |-> <<>>, last_buffer_len |-> 0,
                     iterations |-> 0, reads |-> 0, pc |-> "loop",
                     result |-> "none", err |-> "none", consumed |-> 0]
    /\ CodecIdle
    /\ CgiIdle
    /\ PathIdle
    /\ HeadersIdle
    /\ RespIdle
    /\ RouterIdle
    /\ ServeIdle
    /\ DriverIdle

\* the next piece of the request reaches the socket
ClientSends ==
    /\ parsing.pc = "loop"
    /\ parsing.script # <<>>
    /\ parsing' = [parsing EXCEPT !.incoming = @ \o Head(parsing.script),
                                  !.script = Tail(@)]
    /\ UNCHANGED notParseVars

\* the client closes its side, having sent the whole request
ClientCloses ==
    /\ parsing.pc = "loop"
    /\ parsing.script = <<>>
    /\ ~parsing.closed
    /\ parsing' = [parsing EXCEPT !.closed = TRUE]
    /\ UNCHANGED notParseVars

\* mod.rs 162-185: fill_buf and one iteration of the loop
ParseIteration ==
    /\ parsing.pc = "loop"
    /\ \E f \in fill_buf(parsing.rbuf, parsing.incoming, parsing.closed) :
          LET it == parse_iteration(parsing.last_buffer_len, f.buf) IN
          parsing' = [parsing EXCEPT
                         !.incoming = f.incoming,
                         !.rbuf = f.buf,
                         !.reads = IF f.read THEN @ + 1 ELSE @,
                         !.iterations = @ + 1,
                         !.last_buffer_len = it.last,
                         !.pc = IF it.how = "return" THEN "returned" ELSE "loop",
                         !.result = it.result,
                         !.err = it.err,
                         !.consumed = it.consumed]
    /\ UNCHANGED notParseVars

\* mod.rs 64, 164: the read of fill_buf times out on a silent client
ReadTimesOut ==
    /\ parsing.pc = "loop"
    /\ parsing.rbuf = <<>>
    /\ parsing.incoming = <<>>
    /\ ~parsing.closed
    /\ parsing' = [parsing EXCEPT !.pc = "returned", !.result = "Err", !.err = "Io",
                                  !.reads = @ + 1]
    /\ UNCHANGED notParseVars

NextParse ==
    \/ ClientSends
    \/ ClientCloses
    \/ ParseIteration
    \/ ReadTimesOut

SpecParse == InitParse /\ [][NextParse]_vars

\* parse_inner has returned
ParseReturned == parsing.set /\ parsing.pc = "returned"

\* the request the client sends has a complete header block
HasCompleteHead == parsing.set /\ httparse_parse(parsing.request).status = "Complete"

\* the client has more of its request to send, or the socket holds bytes
\* that were never read
MoreToRead == parsing.script # <<>> \/ parsing.incoming # <<>>

\* C37: parse_inner refills until the parser reports completion: when the
\* whole of a request with a complete header block has arrived, over one
\* read or several, it returns Ok; it returns RequestIncomplete only when
\* the peer has sent nothing more and the header block is not complete.
C37_RefillsUntilComplete ==
    ParseReturned =>
        /\ (HasCompleteHead /\ parsing.reads >= 1 /\ ~MoreToRead /\ parsing.err # "Io")
               => parsing.result = "Ok"
        /\ parsing.err = "RequestIncomplete"
               => (~MoreToRead /\ ~HasCompleteHead)

\* the header block that the first read brought whole is parsed, and what
\* is consumed is the head
ParsedWhenInOneRead ==
    (ParseReturned /\ HasCompleteHead
         /\ httparse_parse(parsing.rbuf).status = "Complete") =>
        /\ parsing.result = "Ok"
        /\ parsing.consumed = HeadEnd(parsing.request)
        /\ parsing.iterations = 1

\* the reader's buffer is what the first read brought: no iteration reads
\* the socket again
OneReadOnly == parsing.set => parsing.reads <= 1

\* RequestIncomplete comes from a second iteration on the same buffer, or
\* from an empty first read
IncompleteOnSameBuffer ==
    (ParseReturned /\ parsing.err = "RequestIncomplete") =>
        /\ Len(parsing.rbuf) = parsing.last_buffer_len
        /\ parsing.iterations = IF parsing.rbuf = <<>> THEN 1 ELSE 2

\* a request with a complete head, cut in two, was declared incomplete
\* while its second piece was on the way
IncompleteWhileArriving ==
    /\ ParseReturned
    /\ HasCompleteHead
    /\ parsing.err = "RequestIncomplete"
    /\ MoreToRead

\* a request with a body was parsed
ParsedWithBody ==
    /\ ParseReturned
    /\ parsing.result = "Ok"
    /\ parsing.request = REQ_Body
    /\ DropBytes(parsing.rbuf, parsing.consumed) = B_Hi

\* the records of the stream are PARAMS records with the id given
ParamsRecords(id) ==
    \A k \in DOMAIN wire :
       /\ Len(wire[k]) >= 8
       /\ wire[k][2] = PARAMS
       /\ u16_at(wire[k], 3) = id
       /\ u16_at(wire[k], 5) <= U16_MAX
       /\ Len(wire[k]) = 8 + u16_at(wire[k], 5) + wire[k][7]

\* the contents of the records 1 to n of the stream, joined
RECURSIVE ContentsJoined(_)
ContentsJoined(n) ==
    IF n = 0 THEN <<>> ELSE ContentsJoined(n - 1) \o ContentOfFrame(wire[n])

\* the last operation was a call of params
CalledParams == BySerializer /\ sent.fn = "params"

\* the pairs given to params take more than 65,535 bytes encoded
TooLongForOneRecord == params_content_length(sent.pairs) > U16_MAX

\* C38: params writes PARAMS records that carry all the pairs, in order,
\* and then one empty PARAMS record that ends the stream; pairs that take
\* more than 65,535 bytes encoded are split over several records, each
\* with a content of at most 65,535 bytes: the call does not fail.
C38_ParamsSplit ==
    CalledParams =>
        /\ sent.ok
        /\ Len(wire) >= 2
        /\ ParamsRecords(sent.id)
        /\ ContentsJoined(Len(wire) - 1) = params_content(sent.pairs)
        /\ ContentOfFrame(wire[Len(wire)]) = <<>>
        /\ sent.pairs # <<>> =>
              \A k \in 1..(Len(wire) - 1) : ContentOfFrame(wire[k]) # <<>>

\* the same for the pairs that fit one record, which is then the only one
\* before the terminator
ParamsInOneRecord ==
    (CalledParams /\ ~TooLongForOneRecord) =>
        /\ sent.ok
        /\ Len(wire) = 2
        /\ ParamsRecords(sent.id)
        /\ ContentOfFrame(wire[1]) = params_content(sent.pairs)
        /\ ContentOfFrame(wire[2]) = <<>>

\* pairs that do not fit one record make params fail, with nothing written
TooLongFails ==
    (CalledParams /\ TooLongForOneRecord) => (~sent.ok /\ wire = <<>>)

\* params was given two pairs that fit a record each, but not one together
TwoPairsTooLong ==
    /\ CalledParams
    /\ Len(sent.pairs) = 2
    /\ TooLongForOneRecord
    /\ \A i \in 1..2 : params_content_length(<<sent.pairs[i]>>) <= U16_MAX
    /\ ~sent.ok

\* params has written a record that is full
FullRecordWritten ==
    /\ CalledParams
    /\ sent.ok
    /\ u16_at(wire[1], 5) = U16_MAX

\* params without pairs writes two empty records
TwoEmptyRecordsForNoPairs ==
    /\ CalledParams
    /\ sent.pairs = <<>>
    /\ Len(wire) = 2
    /\ wire[1] = wire[2]

(***************************************************************************)
(* SpecCgiFeed: doc_headers on a CGI document that arrives bit by bit, as  *)
(* in the header loop of the driver, which appends the content of each     *)
(* Stdout record to a buffer and runs doc_headers on the whole buffer.     *)
(* The documents are those of SpecCgi: all of them follow the grammar      *)
(* [status_line EOL] content_type EOL header* EOL.                         *)
(***************************************************************************)
\* doc_headers accepts d when it is given all of it, the body left as rest
Accepted(d) ==
    doc_headers(d.bytes).kind = "Done" /\ doc_headers(d.bytes).rest = d.body

\* the length of the header block of d, its blank-line terminator included
HeadLen(d) == Len(d.bytes) - Len(d.body)

InitCgiFeed ==
    /\ document \in CgiDocuments
    /\ parsed = NoSnapshot
    /\ CodecIdle
    /\ PathIdle
    /\ HeadersIdle
    /\ RespIdle
    /\ RouterIdle
    /\ ServeIdle
    /\ DriverIdle
    /\ ParseIdle

\* the bytes of the document fed so far
Fed == IF parsed.set THEN parsed.fed ELSE 0

\* driver.rs 104-108: a Stdout record brings the document up to its n-th
\* byte, and doc_headers is run on what has come so far
FeedStdout ==
    /\ parsed.set => parsed.r.kind = "Incomplete"
    /\ \E n \in (Fed + 1)..Len(document.bytes) :
          parsed' = [set |-> TRUE, fed |-> n,
                     r |-> doc_headers(SubSeq(document.bytes, 1, n))]
    /\ UNCHANGED document
    /\ UNCHANGED notCgiVars

NextCgiFeed == FeedStdout

SpecCgiFeed == InitCgiFeed /\ [][NextCgiFeed]_vars

\* the blank line that ends the header block has not all come yet
BlankLineToCome == parsed.set /\ parsed.fed < HeadLen(document)

\* C39: doc_headers returns Incomplete for every proper prefix of a
\* document it accepts that stops before the end of the blank line, and an
\* error for no prefix of a document that follows the grammar: a valid
\* header block fed bit by bit never gives an error.
C39_PrefixIncomplete ==
    /\ (BlankLineToCome /\ Accepted(document)) => parsed.r.kind = "Incomplete"
    /\ parsed.set => parsed.r.kind # "Error"

\* the part of C39 that holds: every prefix of an accepted document that
\* stops before the end of the blank line is Incomplete
AcceptedPrefixIncomplete ==
    (BlankLineToCome /\ Accepted(document)) => parsed.r.kind = "Incomplete"

\* a document with a Status line gives no error, however much of it has come
NoErrorWithStatusLine ==
    (parsed.set /\ ~document.status.none) => parsed.r.kind # "Error"

\* a document without a Status line is an error as soon as seven bytes of
\* it, as many as "Status:" has, have come
ErrorWithoutStatusLine ==
    (parsed.set /\ document.status.none) =>
        (parsed.r.kind = "Error" <=> parsed.fed >= Len(B_StatusColon))

\* once the blank line of an accepted document has come, the document is
\* parsed as when it is whole
WholeHeadParsed ==
    (parsed.set /\ Accepted(document) /\ parsed.fed >= HeadLen(document)) =>
        /\ parsed.r.kind = "Done"
        /\ parsed.r.val = doc_headers(document.bytes).val
        /\ parsed.r.rest = SubSeq(document.bytes, HeadLen(document) + 1, parsed.fed)

\* an accepted document was parsed with its body, after feeds that were
\* Incomplete
ParsedAfterFeeds ==
    /\ parsed.set
    /\ Accepted(document)
    /\ parsed.r.kind = "Done"
    /\ parsed.fed = Len(document.bytes)
    /\ document.body # <<>>

\* the header block of a document without a Status line was an error before
\* its blank line had come
ErrorBeforeBlankLine ==
    /\ BlankLineToCome
    /\ document.status.none
    /\ parsed.r.kind = "Error"

\* two routes of rs have the same prefix, as paths compare
DuplicatePrefix(rs) ==
    \E i, j \in 1..Len(rs) : i < j /\ Path_eq(rs[i].path, rs[j].path)

\* a prefix of rs is registered both as an Any and as a Specific route
AnyAndSpecific(rs) ==
    \E i, j \in 1..Len(rs) :
        /\ Path_eq(rs[i].path, rs[j].path)
        /\ rs[i].handlers.kind = "Any"
        /\ rs[j].handlers.kind = "Specific"

\* C40: after any sequence of route and route_any calls that does not
\* panic, no two routes have the same prefix, and no prefix is registered
\* both as an Any route and as a Specific route.
C40_PrefixesUnique ==
    ~rpanic => (~DuplicatePrefix(routes) /\ ~AnyAndSpecific(routes))

\* what route keeps: no two Specific routes have the same prefix, and no
\* Specific route comes after an Any route with its prefix
SpecificPrefixesUnique ==
    \A i, j \in 1..Len(routes) :
        (i < j /\ Path_eq(routes[i].path, routes[j].path)) =>
            routes[j].handlers.kind = "Any"

\* route_any twice with one prefix: two Any routes, the second unreachable
AnyRegisteredTwice ==
    /\ ~rpanic
    /\ Len(routes) = 2
    /\ routes[1].path = routes[2].path
    /\ routes[1].handlers.kind = "Any"
    /\ routes[2].handlers.kind = "Any"

\* route, then route_any with the same prefix: no panic, both kinds
AnyAfterSpecific ==
    /\ ~rpanic
    /\ Len(routes) = 2
    /\ routes[1].path = routes[2].path
    /\ routes[1].handlers.kind = "Specific"
    /\ routes[2].handlers.kind = "Any"

\* a request for the doubled prefix was served and went to the first route
ShadowedRouteSkipped ==
    /\ routed.set
    /\ DuplicatePrefix(routes)
    /\ 2 \in Matching(routes, routed.uri)
    /\ routed.decision.route = 1
====
